---- MODULE Spec2Model ----
(***************************************************************************)
(* fastify-webhook-verify: webhook signature verification with replay      *)
(* protection.  The module models the providers, the timing-safe           *)
(* comparator, the provider registry, the replay guard with its nonce      *)
(* storage, and the per-request verification handler of the plugin.        *)
(*                                                                         *)
(* Strings are sequences of one-character strings; a byte that is not      *)
(* printable ASCII, and the grave accent, is written "<..>" ("<FE>").      *)
(***************************************************************************)
EXTENDS Integers, Sequences, FiniteSets, TLC

VARIABLES
    opts,       \* plugin options: providers, replayProtection, errorHandler, onVerify
    now,        \* Date.now(), in milliseconds
    nonces,     \* the storage's nonce -> expiresAt map
    timer,      \* InMemoryReplayStorage.cleanupInterval: set or not, and since when
    closed,     \* the host has run its onClose hooks
    h,          \* the verification handlers in flight or finished, one per slot
    pure,       \* inputs and result of the provider-level functions
    accepted    \* history: provider, token and timestamp of the requests accepted after a replay check

vars == <<opts, now, nonces, timer, closed, h, pure, accepted>>

(***************************************************************************)
(* Characters                                                              *)
(***************************************************************************)

Ascii ==
    <<" ", "!", "\"", "#", "$", "%", "&", "'", "(", ")", "*", "+", ",", "-", ".", "/",
      "0", "1", "2", "3", "4", "5", "6", "7", "8", "9", ":", ";", "<", "=", ">", "?",
      "@", "A", "B", "C", "D", "E", "F", "G", "H", "I", "J", "K", "L", "M", "N", "O",
      "P", "Q", "R", "S", "T", "U", "V", "W", "X", "Y", "Z", "[", "\\", "]", "^", "_",
      "<60>", "a", "b", "c", "d", "e", "f", "g", "h", "i", "j", "k", "l", "m", "n", "o",
      "p", "q", "r", "s", "t", "u", "v", "w", "x", "y", "z", "{", "|", "}", "~">>

AsciiChars == {Ascii[i] : i \in 1..Len(Ascii)}

\* The bytes 0xFE and 0xFF occur in no well-formed UTF-8 text.
InvalidUtf8Bytes == {"<FE>", "<FF>"}

\* U+FFFD, and the three bytes of its UTF-8 encoding.
ReplacementChar == "<FFFD>"

OrdTable ==
    [c \in AsciiChars |-> 31 + (CHOOSE i \in 1..Len(Ascii) : Ascii[i] = c)]

\* The code of a character or byte.
Ord(c) ==
    CASE c \in AsciiChars -> OrdTable[c]
      [] c = "<FE>" -> 254
      [] c = "<FF>" -> 255
      [] c = "<EF>" -> 239
      [] c = "<BF>" -> 191
      [] c = "<BD>" -> 189
      [] c = "<FFFD>" -> 65533

\* The character with code n, for printable ASCII and the two invalid bytes.
Chr(n) ==
    CASE n \in 32..126 -> Ascii[n - 31]
      [] n = 254 -> "<FE>"
      [] n = 255 -> "<FF>"

IsChr(n) == n \in 32..126 \/ n \in {254, 255}

RECURSIVE Pow2(_)
Pow2(k) == IF k = 0 THEN 1 ELSE 2 * Pow2(k - 1)

\* n with bit k inverted.
FlipBit(n, k) ==
    IF (n \div Pow2(k)) % 2 = 1 THEN n - Pow2(k) ELSE n + Pow2(k)

\* s with bit k of its i-th character inverted.
FlipBitAt(s, i, k) == [s EXCEPT ![i] = Chr(FlipBit(Ord(s[i]), k))]

CanFlip(s, i, k) == i \in 1..Len(s) /\ k \in 0..7 /\ IsChr(FlipBit(Ord(s[i]), k))

\* Every string that differs from s in exactly one bit.
BitMutations(s) ==
    {FlipBitAt(s, i, k) : <<i, k>> \in {p \in (1..Len(s)) \X (0..7) : CanFlip(s, p[1], p[2])}}

Drop(s, n) == SubSeq(s, n + 1, Len(s))

StartsWith(s, prefix) ==
    Len(s) >= Len(prefix) /\ SubSeq(s, 1, Len(prefix)) = prefix

\* String.prototype.toLowerCase on ASCII.
LowerChar(c) ==
    IF c \in AsciiChars /\ Ord(c) \in 65..90 THEN Chr(Ord(c) + 32) ELSE c

ToLowerCase(s) == [i \in 1..Len(s) |-> LowerChar(s[i])]

(***************************************************************************)
(* Buffers: Buffer.from(string, encoding) and digest(encoding).  A buffer  *)
(* is a sequence of bytes 0..255.                                          *)
(***************************************************************************)

\* The value of a hexadecimal digit, in either case; -1 for any other character.
HexValue(c) ==
    LET n == Ord(c) IN
    CASE n \in 48..57 -> n - 48
      [] n \in 97..102 -> n - 87
      [] n \in 65..70 -> n - 55
      [] OTHER -> -1

RECURSIVE HexDecodeFrom(_, _)
HexDecodeFrom(s, i) ==
    IF 2 * i > Len(s) THEN <<>>
    ELSE LET a == HexValue(s[2 * i - 1])
             b == HexValue(s[2 * i])
         IN  IF a < 0 \/ b < 0 THEN <<>>
             ELSE <<16 * a + b>> \o HexDecodeFrom(s, i + 1)

\* Buffer.from(s, 'hex'): pairs of digits up to the first pair that is not
\* hexadecimal; a last odd character is dropped.
BufferFromHex(s) == HexDecodeFrom(s, 1)

HexDigit(n) == IF n < 10 THEN Chr(48 + n) ELSE Chr(87 + n)

RECURSIVE HexEncode(_)
\* digest('hex'): two lower-case digits per byte.
HexEncode(bytes) ==
    IF bytes = <<>> THEN <<>>
    ELSE <<HexDigit(Head(bytes) \div 16), HexDigit(Head(bytes) % 16)>> \o HexEncode(Tail(bytes))

Base64Alphabet ==
    <<"A", "B", "C", "D", "E", "F", "G", "H", "I", "J", "K", "L", "M", "N", "O", "P",
      "Q", "R", "S", "T", "U", "V", "W", "X", "Y", "Z", "a", "b", "c", "d", "e", "f",
      "g", "h", "i", "j", "k", "l", "m", "n", "o", "p", "q", "r", "s", "t", "u", "v",
      "w", "x", "y", "z", "0", "1", "2", "3", "4", "5", "6", "7", "8", "9", "+", "/">>

Base64Table ==
    [c \in AsciiChars |->
        IF \E i \in 1..64 : Base64Alphabet[i] = c
        THEN (CHOOSE i \in 1..64 : Base64Alphabet[i] = c) - 1
        ELSE IF c = "-" THEN 62 ELSE IF c = "_" THEN 63 ELSE -1]

\* The six bits of a base64 or base64url character; -1 for any other character.
Base64Value(c) == IF c \in AsciiChars THEN Base64Table[c] ELSE -1

RECURSIVE Base64Sextets(_)
\* The six-bit values of s up to its first "=", characters outside the
\* alphabets skipped.
Base64Sextets(s) ==
    IF s = <<>> \/ Head(s) = "=" THEN <<>>
    ELSE IF Base64Value(Head(s)) < 0 THEN Base64Sextets(Tail(s))
    ELSE <<Base64Value(Head(s))>> \o Base64Sextets(Tail(s))

RECURSIVE SextetsToBytes(_)
SextetsToBytes(v) ==
    CASE Len(v) >= 4 ->
            <<4 * v[1] + v[2] \div 16, 16 * (v[2] % 16) + v[3] \div 4, 64 * (v[3] % 4) + v[4]>>
                \o SextetsToBytes(Drop(v, 4))
      [] Len(v) = 3 -> <<4 * v[1] + v[2] \div 16, 16 * (v[2] % 16) + v[3] \div 4>>
      [] Len(v) = 2 -> <<4 * v[1] + v[2] \div 16>>
      [] OTHER -> <<>>

\* Buffer.from(s, 'base64'): padding is optional, the unused low bits of a last
\* partial group are dropped.
BufferFromBase64(s) == SextetsToBytes(Base64Sextets(s))

RECURSIVE Base64Encode(_)
\* digest('base64'): the standard alphabet, padded with "=".
Base64Encode(bytes) ==
    LET ch(n) == Base64Alphabet[n + 1] IN
    CASE Len(bytes) >= 3 ->
            <<ch(bytes[1] \div 4), ch(16 * (bytes[1] % 4) + bytes[2] \div 16),
              ch(4 * (bytes[2] % 16) + bytes[3] \div 64), ch(bytes[3] % 64)>>
                \o Base64Encode(Drop(bytes, 3))
      [] Len(bytes) = 2 ->
            <<ch(bytes[1] \div 4), ch(16 * (bytes[1] % 4) + bytes[2] \div 16),
              ch(4 * (bytes[2] % 16)), "=">>
      [] Len(bytes) = 1 -> <<ch(bytes[1] \div 4), ch(16 * (bytes[1] % 4)), "=", "=">>
      [] OTHER -> <<>>

BufferFrom(s, encoding) ==
    IF encoding = "hex" THEN BufferFromHex(s) ELSE BufferFromBase64(s)

Encode(bytes, encoding) ==
    IF encoding = "hex" THEN HexEncode(bytes) ELSE Base64Encode(bytes)

\* Buffer.prototype.toString(): UTF-8 decoding, a byte that is no part of a
\* well-formed sequence becomes U+FFFD.
BufferToString(buf) ==
    [i \in 1..Len(buf) |-> IF buf[i] \in InvalidUtf8Bytes THEN ReplacementChar ELSE buf[i]]

\* The bytes of one character under UTF-8; U+FFFD takes three.
Utf8Of(c) == IF c = ReplacementChar THEN <<239, 191, 189>> ELSE <<Ord(c)>>

RECURSIVE Utf8From(_, _)
Utf8From(s, i) == IF i > Len(s) THEN <<>> ELSE Utf8Of(s[i]) \o Utf8From(s, i + 1)

\* The bytes of a string under UTF-8, as crypto's update(string) hashes them.
Utf8Bytes(s) ==
    IF \A i \in 1..Len(s) : s[i] # ReplacementChar
    THEN [i \in 1..Len(s) |-> Ord(s[i])]
    ELSE Utf8From(s, 1)

(***************************************************************************)
(* crypto.createHmac(algorithm, secret).update(payload).digest(encoding)   *)
(***************************************************************************)

\* The digest sizes keep the remainders modulo 3 of the real ones (20, 32 and
\* 64 bytes), which decide the base64 padding.
DigestBytes(algorithm) ==
    CASE algorithm = "sha1" -> 2
      [] algorithm = "sha256" -> 5
      [] algorithm = "sha512" -> 4

AlgorithmSeed(algorithm) ==
    CASE algorithm = "sha1" -> 17
      [] algorithm = "sha256" -> 101
      [] algorithm = "sha512" -> 203

RECURSIVE Fold(_, _, _, _)
\* One byte of the digest: a polynomial of the input bytes from the i-th on,
\* with an odd multiplier, so that a change of one input byte changes every
\* digest byte.
Fold(acc, bytes, i, mult) ==
    IF i > Len(bytes) THEN acc
    ELSE Fold((acc * mult + bytes[i] + 1) % 256, bytes, i + 1, mult)

HmacBytes(algorithm, secret, payload) ==
    LET key == Utf8Bytes(secret)
        input == <<Len(key)>> \o key \o Utf8Bytes(payload)
    IN  [i \in 1..DigestBytes(algorithm) |->
            Fold((AlgorithmSeed(algorithm) + 7 * i) % 256, input, 1, 2 * i + 1)]

(***************************************************************************)
(* utils: timingSafeCompare                                                *)
(***************************************************************************)

\* A comparison that takes a token for equal when its bytes begin the other's:
\* what C22 rules out.
PrefixCompare(a, b, encoding) == StartsWith(BufferFrom(b, encoding), BufferFrom(a, encoding))

\* crypto.timingSafeEqual throws on buffers of different lengths, and compares
\* every byte otherwise.
timingSafeCompare(a, b, encoding) ==
    LET bufA == BufferFrom(a, encoding)
        bufB == BufferFrom(b, encoding)
    IN  IF Len(bufA) # Len(bufB) THEN FALSE ELSE bufA = bufB

(***************************************************************************)
(* JavaScript values used by the providers                                 *)
(***************************************************************************)

\* The result of a call: a returned value or a thrown error.
Return(v) == [threw |-> FALSE, value |-> v, name |-> "", message |-> ""]

Throw(errName, msg) == [threw |-> TRUE, value |-> <<>>, name |-> errName, message |-> msg]

\* A Date: undefined, invalid (getTime() is NaN) or with getTime() = ms.
NoDate == [defined |-> FALSE, nan |-> FALSE, ms |-> 0]

InvalidDate == [defined |-> TRUE, nan |-> TRUE, ms |-> 0]

DateOf(ms) == [defined |-> TRUE, nan |-> FALSE, ms |-> ms]

\* The result of parseInt.
NaN == [nan |-> TRUE, n |-> 0]

Num(n) == [nan |-> FALSE, n |-> n]

Digits == {"0", "1", "2", "3", "4", "5", "6", "7", "8", "9"}

Whitespace == {" "}

RECURSIVE DigitsValue(_, _)
\* The value of the leading decimal digits of s, continuing from acc.
DigitsValue(s, acc) ==
    IF s = <<>> \/ Head(s) \notin Digits THEN acc
    ELSE DigitsValue(Tail(s), 10 * acc + (Ord(Head(s)) - 48))

RECURSIVE TrimStart(_)
TrimStart(s) == IF s # <<>> /\ Head(s) \in Whitespace THEN TrimStart(Tail(s)) ELSE s

\* parseInt(s, 10): leading white space, an optional sign, then digits up to
\* the first character that is none; NaN when there is no digit.
ParseInt(s) ==
    LET t == TrimStart(s)
        signed == t # <<>> /\ Head(t) \in {"-", "+"}
        d == IF signed THEN Tail(t) ELSE t
    IN  IF d = <<>> \/ Head(d) \notin Digits THEN NaN
        ELSE IF signed /\ Head(t) = "-" THEN Num(0 - DigitsValue(d, 0))
        ELSE Num(DigitsValue(d, 0))

\* new Date(n * 1000)
DateFromSeconds(n) == IF n.nan THEN InvalidDate ELSE DateOf(n.n * 1000)

RECURSIVE NatToString(_)
NatToString(n) ==
    IF n < 10 THEN <<Chr(48 + n)>> ELSE NatToString(n \div 10) \o <<Chr(48 + (n % 10))>>

\* String(n) of an integer.
IntToString(n) == IF n < 0 THEN <<"-">> \o NatToString(0 - n) ELSE NatToString(n)

\* String(Math.floor(timestamp.getTime() / 1000)); ms is a multiple of 1000.
EpochSecondsString(timestamp) ==
    IF timestamp.nan THEN <<"N", "a", "N">> ELSE IntToString(timestamp.ms \div 1000)

\* String(timestamp.getTime())
EpochMillisString(timestamp) ==
    IF timestamp.nan THEN <<"N", "a", "N">> ELSE IntToString(timestamp.ms)

RECURSIVE SplitFrom(_, _, _)
SplitFrom(s, sep, cur) ==
    IF s = <<>> THEN <<cur>>
    ELSE IF Head(s) = sep THEN <<cur>> \o SplitFrom(Tail(s), sep, <<>>)
    ELSE SplitFrom(Tail(s), sep, Append(cur, Head(s)))

\* String.prototype.split with a one-character separator.
Split(s, sep) == SplitFrom(s, sep, <<>>)

\* A decoded JSON body, as far as the providers read it: null, or a value whose
\* type property is a string or something else.
JsonNull == [isNull |-> TRUE, typeIsString |-> FALSE, type |-> <<>>]

JsonWithType(t) == [isNull |-> FALSE, typeIsString |-> TRUE, type |-> t]

JsonOther == [isNull |-> FALSE, typeIsString |-> FALSE, type |-> <<>>]

\* An optional string: undefined or a string.
Undefined == [defined |-> FALSE, value |-> <<>>]

Defined(s) == [defined |-> TRUE, value |-> s]

(***************************************************************************)
(* providers: the descriptors and the four operations of BaseProvider and  *)
(* its subclasses                                                          *)
(***************************************************************************)

\* No customConfig.
NoConfig ==
    [present |-> FALSE, signatureHeader |-> <<>>, timestampHeader |-> <<>>,
     algorithm |-> "sha256", extractSignature |-> "undefined",
     buildPayload |-> "undefined", signatureEncoding |-> "undefined"]

StripeProvider ==
    [variant |-> "stripe", signatureHeader |-> <<"s", "t", "r", "i", "p", "e", "-", "s", "i", "g", "n", "a", "t", "u", "r", "e">>,
     timestampHeader |-> <<>>, algorithm |-> "sha256", signatureEncoding |-> "hex",
     customConfig |-> NoConfig]

GitHubProvider ==
    [variant |-> "github", signatureHeader |-> <<"x", "-", "h", "u", "b", "-", "s", "i", "g", "n", "a", "t", "u", "r", "e", "-", "2", "5", "6">>,
     timestampHeader |-> <<>>, algorithm |-> "sha256", signatureEncoding |-> "hex",
     customConfig |-> NoConfig]

SlackProvider ==
    [variant |-> "slack", signatureHeader |-> <<"x", "-", "s", "l", "a", "c", "k", "-", "s", "i", "g", "n", "a", "t", "u", "r", "e">>,
     timestampHeader |-> <<"x", "-", "s", "l", "a", "c", "k", "-", "r", "e", "q", "u", "e", "s", "t", "-", "t", "i", "m", "e", "s", "t", "a", "m", "p">>, algorithm |-> "sha256",
     signatureEncoding |-> "hex", customConfig |-> NoConfig]

ShopifyProvider ==
    [variant |-> "shopify", signatureHeader |-> <<"x", "-", "s", "h", "o", "p", "i", "f", "y", "-", "h", "m", "a", "c", "-", "s", "h", "a", "2", "5", "6">>,
     timestampHeader |-> <<>>, algorithm |-> "sha256", signatureEncoding |-> "base64",
     customConfig |-> NoConfig]

TwilioProvider ==
    [variant |-> "twilio", signatureHeader |-> <<"x", "-", "t", "w", "i", "l", "i", "o", "-", "s", "i", "g", "n", "a", "t", "u", "r", "e">>,
     timestampHeader |-> <<>>, algorithm |-> "sha1", signatureEncoding |-> "base64",
     customConfig |-> NoConfig]

\* A custom provider that keeps the header names as they were configured:
\* what C25 rules out.
CaseKeptProvider(config) ==
    [variant |-> "custom", signatureHeader |-> config.signatureHeader,
     timestampHeader |-> config.timestampHeader, algorithm |-> config.algorithm,
     signatureEncoding |-> "hex", customConfig |-> config]

\* new CustomProvider(config): the header names lower-cased, hex by default.
CustomProvider(config) ==
    [variant |-> "custom", signatureHeader |-> ToLowerCase(config.signatureHeader),
     timestampHeader |-> ToLowerCase(config.timestampHeader),
     algorithm |-> config.algorithm,
     signatureEncoding |->
        IF config.signatureEncoding = "undefined" THEN "hex" ELSE config.signatureEncoding,
     customConfig |-> config]

\* new Object(): none of a provider's properties; a read of signatureHeader
\* gives undefined, which as a property key is the string "undefined".
PlainObject ==
    [variant |-> "object", signatureHeader |-> <<"u", "n", "d", "e", "f", "i", "n", "e", "d">>, timestampHeader |-> <<>>,
     algorithm |-> "sha256", signatureEncoding |-> "hex", customConfig |-> NoConfig]

\* BaseProvider.createHmac
createHmac(provider, payload, secret) ==
    Encode(HmacBytes(provider.algorithm, secret, payload), provider.signatureEncoding)

\* The value of key in a header of comma-separated key=value pairs: the first
\* pair with that key and a non-empty second field.
RECURSIVE PairValue(_, _)
PairValue(parts, key) ==
    IF parts = <<>> THEN Undefined
    ELSE LET kv == Split(Head(parts), "=") IN
         IF kv[1] = key /\ Len(kv) >= 2 /\ kv[2] # <<>> THEN Defined(kv[2])
         ELSE PairValue(Tail(parts), key)

\* The Stripe token read from the first pair of the header alone: what C26
\* rules out.
FirstPairExtractSignature(headerValue) ==
    LET v == PairValue(<<Head(Split(headerValue, ","))>>, <<"v", "1">>) IN
    IF v.defined THEN Return(v.value)
    ELSE Throw("Error", "No v1 signature found in Stripe-Signature header")

StripeExtractSignature(headerValue) ==
    LET v == PairValue(Split(headerValue, ","), <<"v", "1">>) IN
    IF v.defined THEN Return(v.value)
    ELSE Throw("Error", "No v1 signature found in Stripe-Signature header")

PrefixExtractSignature(headerValue, prefix, msg) ==
    IF StartsWith(headerValue, prefix) THEN Return(Drop(headerValue, Len(prefix)))
    ELSE Throw("Error", msg)

\* CustomProvider.extractSignature: the configured extractor, or the header.
CustomExtractSignature(config, headerValue) ==
    IF config.extractSignature = "sigPrefix"
    THEN PrefixExtractSignature(headerValue, <<"s", "i", "g", "=">>, "Invalid signature format")
    ELSE Return(headerValue)

NotAFunction(method) == Throw("TypeError", method)

extractSignature(provider, headerValue) ==
    CASE provider.variant = "stripe" -> StripeExtractSignature(headerValue)
      [] provider.variant = "github" ->
            PrefixExtractSignature(headerValue, <<"s", "h", "a", "2", "5", "6", "=">>, "Invalid GitHub signature format")
      [] provider.variant = "slack" ->
            PrefixExtractSignature(headerValue, <<"v", "0", "=">>, "Invalid Slack signature format")
      [] provider.variant \in {"shopify", "twilio"} -> Return(headerValue)
      [] provider.variant = "custom" ->
            CustomExtractSignature(provider.customConfig, headerValue)
      [] OTHER -> NotAFunction("provider.extractSignature is not a function")

\* BaseProvider.parseTimestamp
BaseParseTimestamp(headerValue) == Return(DateFromSeconds(ParseInt(headerValue)))

StripeParseTimestamp(headerValue) ==
    LET v == PairValue(Split(headerValue, ","), <<"t">>) IN
    IF v.defined THEN Return(DateFromSeconds(ParseInt(v.value)))
    ELSE Throw("Error", "No timestamp found in Stripe-Signature header")

parseTimestamp(provider, headerValue) ==
    CASE provider.variant = "stripe" -> StripeParseTimestamp(headerValue)
      [] provider.variant = "object" ->
            NotAFunction("provider.parseTimestamp is not a function")
      [] OTHER -> BaseParseTimestamp(headerValue)

StripeComputeSignature(provider, rawBody, secret, timestamp) ==
    IF ~timestamp.defined
    THEN Throw("Error", "Timestamp is required for Stripe webhook verification")
    ELSE Return(createHmac(provider,
            EpochSecondsString(timestamp) \o <<".">> \o BufferToString(rawBody), secret))

SlackComputeSignature(provider, rawBody, secret, timestamp) ==
    IF ~timestamp.defined
    THEN Throw("Error", "Timestamp is required for Slack webhook verification")
    ELSE Return(createHmac(provider,
            <<"v", "0", ":">> \o EpochSecondsString(timestamp) \o <<":">> \o BufferToString(rawBody),
            secret))

RawBodyComputeSignature(provider, rawBody, secret) ==
    Return(createHmac(provider, BufferToString(rawBody), secret))

\* The configured payload builder of the custom provider:
\* (body, ts) => `${ts}.${body.toString()}`
TsDotBody(rawBody, ts) ==
    (IF ts.defined THEN ts.value ELSE <<"u", "n", "d", "e", "f", "i", "n", "e", "d">>) \o <<".">> \o BufferToString(rawBody)

CustomComputeSignature(provider, rawBody, secret, timestamp) ==
    IF provider.customConfig.buildPayload = "tsDotBody"
    THEN LET ts == IF timestamp.defined THEN Defined(EpochSecondsString(timestamp))
                   ELSE Undefined
         IN  Return(createHmac(provider, TsDotBody(rawBody, ts), secret))
    ELSE RawBodyComputeSignature(provider, rawBody, secret)

computeSignature(provider, rawBody, secret, timestamp) ==
    CASE provider.variant = "stripe" ->
            StripeComputeSignature(provider, rawBody, secret, timestamp)
      [] provider.variant = "slack" ->
            SlackComputeSignature(provider, rawBody, secret, timestamp)
      [] provider.variant \in {"github", "shopify", "twilio"} ->
            RawBodyComputeSignature(provider, rawBody, secret)
      [] provider.variant = "custom" ->
            CustomComputeSignature(provider, rawBody, secret, timestamp)
      [] OTHER -> NotAFunction("provider.computeSignature is not a function")

\* BaseProvider.verifySignature
verifySignature(provider, provided, expected) ==
    timingSafeCompare(provided, expected, provider.signatureEncoding)

\* Stripe and Slack: typeof body.type === 'string' ? body.type : undefined,
\* and the read of a property of null throws.
TypeOfBody(body) ==
    IF body.isNull
    THEN Throw("TypeError", "Cannot read properties of null (reading 'type')")
    ELSE Return(IF body.typeIsString THEN Defined(body.type) ELSE Undefined)

extractEventType(provider, body) ==
    CASE provider.variant \in {"stripe", "slack"} -> TypeOfBody(body)
      [] provider.variant = "object" ->
            NotAFunction("provider.extractEventType is not a function")
      [] OTHER -> Return(Undefined)

(***************************************************************************)
(* providers/index: the registry                                           *)
(***************************************************************************)

RegisteredNames ==
    {<<"s", "t", "r", "i", "p", "e">>, <<"g", "i", "t", "h", "u", "b">>, <<"s", "l", "a", "c", "k">>, <<"s", "h", "o", "p", "i", "f", "y">>, <<"t", "w", "i", "l", "i", "o">>}

\* The properties every object literal inherits from Object.prototype, read
\* by obj[name] when obj has no own property of that name.
InheritedNames ==
    {<<"c", "o", "n", "s", "t", "r", "u", "c", "t", "o", "r">>, <<"t", "o", "S", "t", "r", "i", "n", "g">>, <<"v", "a", "l", "u", "e", "O", "f">>, <<"h", "a", "s", "O", "w", "n", "P", "r", "o", "p", "e", "r", "t", "y">>, <<"_", "_", "p", "r", "o", "t", "o", "_", "_">>}

\* providers[name] of the registry: a provider class, Object (the inherited
\* constructor property), an inherited value that is no constructor, or undefined.
RegistryLookup(name) ==
    CASE name \in RegisteredNames -> "class"
      [] name = <<"c", "o", "n", "s", "t", "r", "u", "c", "t", "o", "r">> -> "Object"
      [] name \in InheritedNames -> "notConstructor"
      [] OTHER -> "undefined"

NewProvider(name) ==
    CASE name = <<"s", "t", "r", "i", "p", "e">> -> StripeProvider
      [] name = <<"g", "i", "t", "h", "u", "b">> -> GitHubProvider
      [] name = <<"s", "l", "a", "c", "k">> -> SlackProvider
      [] name = <<"s", "h", "o", "p", "i", "f", "y">> -> ShopifyProvider
      [] name = <<"t", "w", "i", "l", "i", "o">> -> TwilioProvider

getProvider(name, customConfig) ==
    IF name = <<"c", "u", "s", "t", "o", "m">>
    THEN IF ~customConfig.present
         THEN Throw("Error", "Custom provider requires customConfig")
         ELSE Return(CustomProvider(customConfig))
    ELSE LET ProviderClass == RegistryLookup(name) IN
         CASE ProviderClass = "undefined" -> Throw("UnknownProviderError", "UNKNOWN_PROVIDER")
           [] ProviderClass = "class" -> Return(NewProvider(name))
           [] ProviderClass = "Object" -> Return(PlainObject)
           [] OTHER -> Throw("TypeError", "ProviderClass is not a constructor")

(***************************************************************************)
(* errors                                                                  *)
(***************************************************************************)

NoError ==
    [name |-> "", code |-> "", statusCode |-> 0, provider |-> Undefined,
     timestamp |-> NoDate, tolerance |-> 0, message |-> ""]

WebhookError(errName, code, statusCode, provider) ==
    [NoError EXCEPT !.name = errName, !.code = code, !.statusCode = statusCode,
                    !.provider = provider]

MissingSignatureError(provider) ==
    WebhookError("MissingSignatureError", "MISSING_SIGNATURE", 401, Defined(provider))

InvalidSignatureError(provider) ==
    WebhookError("InvalidSignatureError", "INVALID_SIGNATURE", 401, Defined(provider))

TimestampExpiredError(provider, timestamp, tolerance) ==
    [WebhookError("TimestampExpiredError", "TIMESTAMP_EXPIRED", 401, Defined(provider))
        EXCEPT !.timestamp = timestamp, !.tolerance = tolerance]

ReplayAttackError(provider) ==
    WebhookError("ReplayAttackError", "REPLAY_ATTACK", 401, Defined(provider))

MissingRawBodyError == WebhookError("MissingRawBodyError", "MISSING_RAW_BODY", 500, Undefined)

\* An unknown provider reported as one more unauthorized request: what C21
\* rules out.
Unauthorized(provider) ==
    WebhookError("UnknownProviderError", "INVALID_SIGNATURE", 401, Defined(provider))

UnknownProviderError(provider) ==
    WebhookError("UnknownProviderError", "UNKNOWN_PROVIDER", 400, Defined(provider))

MissingSecretError(provider) ==
    WebhookError("MissingSecretError", "MISSING_SECRET", 500, Defined(provider))

\* The error object a throwing call of the registry or of a provider raises.
ThrownError(result, providerName) ==
    IF result.name = "UnknownProviderError" THEN UnknownProviderError(providerName)
    ELSE [NoError EXCEPT !.name = result.name, !.message = result.message]

(***************************************************************************)
(* replay-protection: the in-memory storage and the guard                  *)
(***************************************************************************)

DefaultTolerance == 300

CleanupIntervalMs == 60000

\* InMemoryReplayStorage.has, and a user storage's has on its own map
StorageHas(map, nonce) == nonce \in DOMAIN map

\* InMemoryReplayStorage.set
StorageSet(map, nonce, expiresAt) ==
    [n \in DOMAIN map \cup {nonce} |-> IF n = nonce THEN expiresAt ELSE map[n]]

\* A sweep that also takes the entries expiring at t: what C29 rules out.
CleanupThrough(map, t) ==
    [n \in {m \in DOMAIN map : ~(map[m] <= t)} |-> map[n]]

\* InMemoryReplayStorage.cleanup at time t
StorageCleanup(map, t) ==
    [n \in {m \in DOMAIN map : ~(map[m] < t)} |-> map[n]]

EmptyMap == [n \in {} |-> 0]

\* config.tolerance ?? 300
ToleranceOr300(tolerance) == IF tolerance.defined THEN tolerance.value ELSE DefaultTolerance

\* A guard that makes its in-memory storage whatever the config brings: what
\* C31 rules out.
GuardOverDefaultStore(config) ==
    [toleranceMs |-> ToleranceOr300(config.tolerance) * 1000, storage |-> "memory"]

\* createReplayProtection(config): the guard's toleranceMs and its storage,
\* the in-memory one unless the config brings one.
createReplayProtection(config) ==
    [toleranceMs |-> ToleranceOr300(config.tolerance) * 1000,
     storage |-> IF config.storage = "undefined" THEN "memory" ELSE config.storage]

\* replayGuard.record: the expiry it stores
RecordExpiresAt(guard, t) == t + guard.toleranceMs

(***************************************************************************)
(* plugin: the verification handler of a route, createVerifyHandler        *)
(***************************************************************************)

\* A secret as the handler reads it: a string, undefined, or what a lookup in
\* the providers object finds on Object.prototype.
SecretString(s) == [type |-> "string", value |-> s]

NoSecret == [type |-> "undefined", value |-> <<>>]

InheritedValue == [type |-> "inherited", value |-> <<>>]

\* !secret is false
Truthy(secret) == secret.type = "inherited" \/ (secret.type = "string" /\ secret.value # <<>>)

\* providers[providerName] on the providers object of the options
ProvidersLookup(providers, name) ==
    IF name \in DOMAIN providers THEN SecretString(providers[name])
    ELSE IF name \in InheritedNames THEN InheritedValue
    ELSE NoSecret

\* let secret = routeOptions.secret; if (!secret && providerName !== 'custom') ...
ResolveSecret(routeOptions, providers) ==
    IF ~Truthy(routeOptions.secret) /\ routeOptions.provider # <<"c", "u", "s", "t", "o", "m">>
    THEN ProvidersLookup(providers, routeOptions.provider)
    ELSE routeOptions.secret

\* A header of the request: undefined, a string, or an array of strings.
NoHeader == [type |-> "undefined", value |-> <<>>]

HeaderString(s) == [type |-> "string", value |-> s]

HeaderArray(s) == [type |-> "array", value |-> s]

\* request.headers[name]
Header(request, name) ==
    IF name \in DOMAIN request.headers THEN request.headers[name] ELSE NoHeader

\* A check of the signature header that lets every header the request has
\* through: what C20 rules out.
IsPresent(header) == header.type # "undefined"

\* !(!header || typeof header !== 'string')
IsNonEmptyString(header) == header.type = "string" /\ header.value # <<>>

\* { ...replayProtection, ...routeOptions.replayProtection }
MergeReplayProtection(global, route) ==
    [enabled |-> IF route.enabled = "undefined" THEN global.enabled ELSE route.enabled = "true",
     tolerance |-> IF route.tolerance.defined THEN route.tolerance ELSE global.tolerance]

Abs(n) == IF n < 0 THEN 0 - n ELSE n

\* A freshness check that lets every timestamp through: what C14 rules out.
NeverExpired(t, timestamp, rpConfig) == FALSE

\* Math.abs(now - webhookTime) > tolerance, false when getTime() is NaN
TimestampExpired(t, timestamp, rpConfig) ==
    ~timestamp.nan /\ Abs(t - timestamp.ms) > ToleranceOr300(rpConfig.tolerance) * 1000

\* A step 4 that finds a timestamp for every provider: what C18 rules out.
TimestampForAll(provider, providerName, request, signatureHeader) == Return(DateOf(1000 * 1000))

\* Step 4 of the handler: the timestamp of the request, if the provider has one.
ExtractTimestamp(provider, providerName, request, signatureHeader) ==
    IF provider.timestampHeader # <<>>
    THEN LET tsHeader == Header(request, provider.timestampHeader) IN
         IF IsNonEmptyString(tsHeader) THEN parseTimestamp(provider, tsHeader.value)
         ELSE Return(NoDate)
    ELSE IF providerName = <<"s", "t", "r", "i", "p", "e">> THEN parseTimestamp(provider, signatureHeader)
    ELSE Return(NoDate)

\* `${providerName}:${signature}:${timestamp.getTime()}`
NonceOf(providerName, signature, timestamp) ==
    providerName \o <<":">> \o signature \o <<":">> \o EpochMillisString(timestamp)

\* What the synchronous part of the handler has found when it stops or reaches
\* the replay check: the stage, the error (routed to the error handler when
\* there is one, or raised past it), and the values the later steps use.
Progress ==
    [ok |-> FALSE, stage |-> "ResolveSecret", error |-> NoError, routed |-> FALSE,
     provider |-> PlainObject, timestamp |-> NoDate, signature |-> <<>>,
     rpEnabled |-> FALSE]

\* The sites that build a typed error and give it to the error handler.
Fail(stage, error) == [Progress EXCEPT !.stage = stage, !.error = error, !.routed = TRUE]

\* A throw of getProvider or of a provider method outside any try.
Raise(stage, error) == [Progress EXCEPT !.stage = stage, !.error = error]

\* Steps 5 and 6 with the comparison of step 6 left out: what C1 is to tell
\* from the handler.
VerifyWithoutComparison(routeOptions, request, replayProtection, t, secret, provider, signatureHeader, timestamp) ==
    LET providerName == routeOptions.provider
        rpConfig == MergeReplayProtection(replayProtection, routeOptions.replayProtection)
        extracted == extractSignature(provider, signatureHeader)
    IN  IF rpConfig.enabled /\ timestamp.defined /\ TimestampExpired(t, timestamp, rpConfig)
        THEN Fail("CheckFreshness",
                  TimestampExpiredError(providerName, timestamp, ToleranceOr300(rpConfig.tolerance)))
        ELSE IF extracted.threw
        THEN Fail("ComputeAndCompare", InvalidSignatureError(providerName))
        ELSE [Progress EXCEPT !.ok = TRUE, !.stage = "ComputeAndCompare",
                              !.provider = provider, !.timestamp = timestamp,
                              !.signature = extracted.value,
                              !.rpEnabled = rpConfig.enabled]

\* Steps 5 and 6 of the handler.
VerifyTimestampAndSignature(routeOptions, request, replayProtection, t, secret, provider, signatureHeader, timestamp) ==
    LET providerName == routeOptions.provider
        rpConfig == MergeReplayProtection(replayProtection, routeOptions.replayProtection)
        extracted == extractSignature(provider, signatureHeader)
        expected == computeSignature(provider, request.rawBody.bytes, secret.value, timestamp)
    IN  IF rpConfig.enabled /\ timestamp.defined /\ TimestampExpired(t, timestamp, rpConfig)
        THEN Fail("CheckFreshness",
                  TimestampExpiredError(providerName, timestamp, ToleranceOr300(rpConfig.tolerance)))
        ELSE IF extracted.threw
        THEN Fail("ComputeAndCompare", InvalidSignatureError(providerName))
        ELSE IF expected.threw
        THEN Raise("ComputeAndCompare", ThrownError(expected, providerName))
        ELSE IF ~verifySignature(provider, extracted.value, expected.value)
        THEN Fail("ComputeAndCompare", InvalidSignatureError(providerName))
        ELSE [Progress EXCEPT !.ok = TRUE, !.stage = "ComputeAndCompare",
                              !.provider = provider, !.timestamp = timestamp,
                              !.signature = extracted.value,
                              !.rpEnabled = rpConfig.enabled]

\* The handler from its entry to the end of step 6, at time t.
VerifyRequest(routeOptions, request, options, t) ==
    LET providerName == routeOptions.provider
        secret == ResolveSecret(routeOptions, options.providers)
        made == getProvider(providerName, routeOptions.customConfig)
        provider == made.value
        signatureHeader == Header(request, provider.signatureHeader)
        parsed == ExtractTimestamp(provider, providerName, request, signatureHeader.value)
    IN  IF ~Truthy(secret)
        THEN Fail("ResolveSecret", MissingSecretError(providerName))
        ELSE IF ~request.rawBody.defined
        THEN Fail("RequireRawBody", MissingRawBodyError)
        ELSE IF made.threw
        THEN Raise("ResolveProvider", ThrownError(made, providerName))
        ELSE IF ~IsNonEmptyString(signatureHeader)
        THEN Fail("ExtractSignatureHeader", MissingSignatureError(providerName))
        ELSE IF parsed.threw
        THEN Raise("ExtractTimestamp", ThrownError(parsed, providerName))
        ELSE VerifyTimestampAndSignature(routeOptions, request, options.replayProtection, t,
                                         secret, provider, signatureHeader.value, parsed.value)

\* let replayGuard = null; if (replayProtection.enabled) replayGuard = createReplayProtection(...)
HasReplayGuard(options) == options.replayProtection.enabled

replayGuard == createReplayProtection(opts.replayProtection)

NoRouteOptions ==
    [provider |-> <<>>, secret |-> NoSecret, customConfig |-> NoConfig,
     replayProtection |-> [enabled |-> "undefined", tolerance |-> [defined |-> FALSE, value |-> 0]]]

NoRequest ==
    [rawBody |-> [defined |-> FALSE, bytes |-> <<>>], body |-> JsonOther,
     headers |-> [n \in {} |-> NoHeader]]

\* request.webhook, undefined until step 8 assigns it
NoWebhook ==
    [set |-> FALSE, verified |-> FALSE, provider |-> <<>>, timestamp |-> NoDate,
     eventType |-> Undefined]

\* The result onVerify is called with; none until step 9 calls it.
NoResult ==
    [valid |-> FALSE, provider |-> <<>>, timestamp |-> NoDate, eventType |-> Undefined]

\* A handler slot with no request.
Idle ==
    [pc |-> "idle", routeOptions |-> NoRouteOptions, request |-> NoRequest,
     progress |-> Progress, isDuplicate |-> FALSE, expiresAt |-> 0,
     checked |-> FALSE, recorded |-> FALSE,
     outcome |-> "pending", error |-> NoError, handled |-> 0,
     webhook |-> NoWebhook, verifyCalls |-> 0, verifyResult |-> NoResult]

InFlight(ctx) == ctx.pc \in {"check", "record"}

\* A failing exit that leaves a result on the request all the same: what C7
\* rules out.
SettleAsValid(ctx, p) ==
    [ctx EXCEPT !.pc = "done", !.progress = p,
                !.outcome = IF p.routed /\ opts.errorHandler THEN "returned" ELSE "threw",
                !.error = p.error,
                !.handled = IF p.routed /\ opts.errorHandler THEN @ + 1 ELSE @,
                !.webhook = [NoWebhook EXCEPT !.set = TRUE, !.verified = TRUE,
                                              !.provider = ctx.routeOptions.provider]]

\* A failing exit: the typed error goes to the error handler when the site
\* routes it and a handler is configured, and is thrown otherwise.
Settle(ctx, p) ==
    IF p.routed /\ opts.errorHandler
    THEN [ctx EXCEPT !.pc = "done", !.progress = p, !.outcome = "returned",
                     !.error = p.error, !.handled = @ + 1]
    ELSE [ctx EXCEPT !.pc = "done", !.progress = p, !.outcome = "threw", !.error = p.error]

\* Steps 8 and 9 with the call of the hook left out: what C24 rules out.
FinalizeWithoutHook(ctx) ==
    [ctx EXCEPT !.pc = "done", !.progress.stage = "Finalize", !.outcome = "returned",
                !.webhook = [set |-> TRUE, verified |-> TRUE, provider |-> ctx.routeOptions.provider,
                             timestamp |-> ctx.progress.timestamp, eventType |-> Undefined]]

\* Steps 8 and 9 of the handler.
Finalize(ctx) ==
    LET p == ctx.progress
        eventType == extractEventType(p.provider, ctx.request.body)
        webhookData == [set |-> TRUE, verified |-> TRUE, provider |-> ctx.routeOptions.provider,
                        timestamp |-> p.timestamp, eventType |-> eventType.value]
        result == [valid |-> TRUE, provider |-> ctx.routeOptions.provider,
                   timestamp |-> p.timestamp, eventType |-> eventType.value]
    IN  IF eventType.threw
        THEN Settle(ctx, Raise("Finalize", ThrownError(eventType, ctx.routeOptions.provider)))
        ELSE IF opts.onVerify = "undefined"
        THEN [ctx EXCEPT !.pc = "done", !.progress.stage = "Finalize", !.outcome = "returned",
                         !.webhook = webhookData]
        ELSE IF opts.onVerify = "returns"
        THEN [ctx EXCEPT !.pc = "done", !.progress.stage = "Finalize", !.outcome = "returned",
                         !.webhook = webhookData, !.verifyCalls = @ + 1,
                         !.verifyResult = result]
        ELSE [ctx EXCEPT !.pc = "done", !.progress.stage = "Finalize", !.outcome = "threw",
                         !.error = [NoError EXCEPT !.name = "Error", !.message = "onVerify"],
                         !.webhook = webhookData, !.verifyCalls = @ + 1,
                         !.verifyResult = result]

Nonce(ctx) == NonceOf(ctx.routeOptions.provider, ctx.progress.signature, ctx.progress.timestamp)

\* What identifies a request to the replay check.
Triple(ctx) ==
    [provider |-> ctx.routeOptions.provider, signature |-> ctx.progress.signature,
     timestamp |-> ctx.progress.timestamp]

(***************************************************************************)
(* The senders of the test suite, and the requests of the model            *)
(***************************************************************************)

\* test/helpers: createStripeSignature(payload, secret, timestamp)
createStripeSignature(payload, secret, timestamp) ==
    <<"t", "=">> \o IntToString(timestamp) \o <<",", "v", "1", "=">>
        \o HexEncode(HmacBytes("sha256", secret, IntToString(timestamp) \o <<".">> \o payload))

createGitHubSignature(payload, secret) ==
    <<"s", "h", "a", "2", "5", "6", "=">> \o HexEncode(HmacBytes("sha256", secret, payload))

createSlackSignature(payload, secret, timestamp) ==
    <<"v", "0", "=">> \o HexEncode(HmacBytes("sha256", secret,
                            <<"v", "0", ":">> \o IntToString(timestamp) \o <<":">> \o payload))

createShopifySignature(payload, secret) == Base64Encode(HmacBytes("sha256", secret, payload))

createTwilioSignature(payload, secret) == Base64Encode(HmacBytes("sha1", secret, payload))

\* The sender of the custom provider tests: the digest of `${ts}.${body}` or
\* of the body, in the configured encoding, behind sig= if the route extracts it.
createCustomSignature(config, payload, secret, timestamp) ==
    LET signed == IF config.buildPayload = "tsDotBody"
                  THEN IntToString(timestamp) \o <<".">> \o payload
                  ELSE payload
        digest == Encode(HmacBytes(config.algorithm, secret, signed),
                         IF config.signatureEncoding = "undefined" THEN "hex"
                         ELSE config.signatureEncoding)
    IN  IF config.extractSignature = "sigPrefix" THEN <<"s", "i", "g", "=">> \o digest ELSE digest

\* JSON.parse of the bodies of the model.
JsonParse(text) ==
    CASE text = <<"n", "u", "l", "l">> -> JsonNull
      [] text = <<"{", "\"", "t", "y", "p", "e", "\"", ":", "\"", "a", "\"", "}">> -> JsonWithType(<<"a">>)
      [] OTHER -> JsonOther

\* The request the content type parser leaves: the raw body and its parse.
JsonRequest(payload, headers) ==
    [rawBody |-> [defined |-> TRUE, bytes |-> payload], body |-> JsonParse(payload),
     headers |-> headers]

\* The headers a sender signing with secret at second timestamp sets for a route.
SignedHeaders(routeOptions, payload, secret, timestamp) ==
    LET name == routeOptions.provider
        config == routeOptions.customConfig
    IN  CASE name = <<"s", "t", "r", "i", "p", "e">> ->
                StripeProvider.signatureHeader :>
                    HeaderString(createStripeSignature(payload, secret, timestamp))
          [] name = <<"s", "l", "a", "c", "k">> ->
                (SlackProvider.signatureHeader :>
                    HeaderString(createSlackSignature(payload, secret, timestamp)))
                @@ (SlackProvider.timestampHeader :> HeaderString(IntToString(timestamp)))
          [] name = <<"s", "h", "o", "p", "i", "f", "y">> ->
                ShopifyProvider.signatureHeader :>
                    HeaderString(createShopifySignature(payload, secret))
          [] name = <<"t", "w", "i", "l", "i", "o">> ->
                TwilioProvider.signatureHeader :>
                    HeaderString(createTwilioSignature(payload, secret))
          [] name = <<"c", "u", "s", "t", "o", "m">> /\ config.present ->
                (ToLowerCase(config.signatureHeader) :>
                    HeaderString(createCustomSignature(config, payload, secret, timestamp)))
                @@ (IF config.timestampHeader = <<>> THEN [n \in {} |-> NoHeader]
                    ELSE ToLowerCase(config.timestampHeader) :>
                            HeaderString(IntToString(timestamp)))
          [] OTHER ->
                GitHubProvider.signatureHeader :>
                    HeaderString(createGitHubSignature(payload, secret))

Sign(routeOptions, payload, secret, timestamp) ==
    JsonRequest(payload, SignedHeaders(routeOptions, payload, secret, timestamp))

\* What a forwarder can do to a signed request.
WithHeader(request, name, header) ==
    [request EXCEPT !.headers = (name :> header) @@ request.headers]

WithoutHeader(request, name) ==
    [request EXCEPT !.headers = [n \in DOMAIN request.headers \ {name} |-> request.headers[n]]]

\* Another content type: the parser of the plugin has not run.
WithoutRawBody(request) ==
    [request EXCEPT !.rawBody = [defined |-> FALSE, bytes |-> <<>>], !.body = JsonOther]

IsLetter(c) == c \in AsciiChars /\ (Ord(c) \in 65..90 \/ Ord(c) \in 97..122)

\* The header with the case bit of its last letter inverted.
RECURSIVE FlipLastLetter(_, _)
FlipLastLetter(s, i) ==
    IF i = 0 THEN s
    ELSE IF IsLetter(s[i]) THEN FlipBitAt(s, i, 5)
    ELSE FlipLastLetter(s, i - 1)

WithCaseFlipped(request, name) ==
    WithHeader(request, name,
               HeaderString(FlipLastLetter(request.headers[name].value,
                                           Len(request.headers[name].value))))

(***************************************************************************)
(* The deployments of the model: plugin options and registered routes      *)
(***************************************************************************)

Secret1 == <<"k", "1">>

Secret2 == <<"k", "2">>

Payload1 == <<"{", "\"", "t", "y", "p", "e", "\"", ":", "\"", "a", "\"", "}">>

PayloadNull == <<"n", "u", "l", "l">>

PayloadEmpty == <<"{", "}">>

NoTolerance == [defined |-> FALSE, value |-> 0]

Tolerance(n) == [defined |-> TRUE, value |-> n]

\* A route of fastify.webhookVerify({ provider }) with nothing else set.
Route(name) == [NoRouteOptions EXCEPT !.provider = name]

\* The configuration of the custom provider tests: both headers and a payload builder.
CustomConfig ==
    [NoConfig EXCEPT !.present = TRUE, !.signatureHeader = <<"X", "-", "C", "u", "s", "t", "o", "m", "-", "S", "i", "g", "n", "a", "t", "u", "r", "e">>,
                     !.timestampHeader = <<"X", "-", "C", "u", "s", "t", "o", "m", "-", "T", "i", "m", "e", "s", "t", "a", "m", "p">>,
                     !.buildPayload = "tsDotBody"]

CustomRoute ==
    [Route(<<"c", "u", "s", "t", "o", "m">>) EXCEPT !.secret = SecretString(Secret1), !.customConfig = CustomConfig]

\* A custom provider that declares no timestamp header and signs the raw body.
CustomRouteNoTimestamp ==
    [CustomRoute EXCEPT !.customConfig.timestampHeader = <<>>,
                        !.customConfig.buildPayload = "undefined"]

\* The custom provider of the extractor tests: a signature header of its own,
\* no timestamp header, and an extractor that takes the token behind sig=.
CustomRoutePrefixed ==
    [CustomRouteNoTimestamp EXCEPT
        !.customConfig.signatureHeader = <<"X", "-", "P", "r", "e", "f", "i", "x", "e", "d", "-", "S", "i", "g", "n", "a", "t", "u", "r", "e">>,
        !.customConfig.extractSignature = "sigPrefix"]

\* A custom provider with both headers, the payload builder and base64.
CustomRouteBase64 == [CustomRoute EXCEPT !.customConfig.signatureEncoding = "base64"]

\* A custom provider that declares a timestamp header and, having no payload
\* builder, signs the raw body.
CustomRouteTimestampOnly == [CustomRoute EXCEPT !.customConfig.buildPayload = "undefined"]

\* const DEFAULT_REPLAY_PROTECTION = { enabled: true, tolerance: 300 }
DEFAULT_REPLAY_PROTECTION ==
    [enabled |-> TRUE, tolerance |-> Tolerance(DefaultTolerance), storage |-> "undefined"]

\* providers: { stripe, github, slack, shopify, twilio, custom } with one secret
AllProviders == [n \in RegisteredNames \cup {<<"c", "u", "s", "t", "o", "m">>} |-> Secret1]

DefaultOptions ==
    [providers |-> AllProviders, replayProtection |-> DEFAULT_REPLAY_PROTECTION,
     errorHandler |-> FALSE, onVerify |-> "undefined", routes |-> {Route(<<"s", "t", "r", "i", "p", "e">>)}]

\* Routes whose provider option is no name of the registry.
OtherRoutes ==
    {Route(<<"p", "a", "y", "p", "a", "l">>), [Route(<<"p", "a", "y", "p", "a", "l">>) EXCEPT !.secret = SecretString(Secret1)],
     Route(<<"c", "o", "n", "s", "t", "r", "u", "c", "t", "o", "r">>), Route(<<"t", "o", "S", "t", "r", "i", "n", "g">>),
     [Route(<<"c", "u", "s", "t", "o", "m">>) EXCEPT !.secret = SecretString(Secret1)],
     [CustomRoute EXCEPT !.secret = NoSecret]}

\* A route with its own replayProtection, and one with its own secret.
RouteWithReplayProtection(name, enabled, tolerance) ==
    [Route(name) EXCEPT !.replayProtection = [enabled |-> enabled, tolerance |-> tolerance]]

RouteWithSecret(name, secret) == [Route(name) EXCEPT !.secret = SecretString(secret)]

\* replayProtection: { enabled: false } with routes that leave it so and
\* routes that enable it, and replayProtection: { enabled: true } with a route
\* that disables it, one with a tolerance of its own and one with a secret of
\* its own.
OverrideDeployments ==
    {[DefaultOptions EXCEPT
        !.replayProtection = [enabled |-> FALSE, tolerance |-> NoTolerance, storage |-> "undefined"],
        !.routes = {Route(<<"s", "l", "a", "c", "k">>),
                    RouteWithReplayProtection(<<"s", "t", "r", "i", "p", "e">>, "true", NoTolerance),
                    RouteWithReplayProtection(<<"s", "t", "r", "i", "p", "e">>, "true", Tolerance(100))}],
     [DefaultOptions EXCEPT
        !.replayProtection = [enabled |-> TRUE, tolerance |-> NoTolerance, storage |-> "undefined"],
        !.errorHandler = TRUE, !.onVerify = "returns",
        !.routes = {RouteWithReplayProtection(<<"s", "l", "a", "c", "k">>, "false", NoTolerance),
                    RouteWithReplayProtection(<<"s", "l", "a", "c", "k">>, "undefined", Tolerance(400)),
                    RouteWithSecret(<<"g", "i", "t", "h", "u", "b">>, Secret2)}]}

Deployments ==
    {DefaultOptions,
     [DefaultOptions EXCEPT !.errorHandler = TRUE, !.onVerify = "returns",
                            !.routes = {Route(<<"g", "i", "t", "h", "u", "b">>),
                                        Route(<<"s", "h", "o", "p", "i", "f", "y">>), Route(<<"t", "w", "i", "l", "i", "o">>),
                                        CustomRouteNoTimestamp}],
     [DefaultOptions EXCEPT !.errorHandler = TRUE, !.routes = OtherRoutes],
     [DefaultOptions EXCEPT !.routes = OtherRoutes \cup {Route(<<"s", "l", "a", "c", "k">>)}],
     [DefaultOptions EXCEPT !.onVerify = "throws",
                            !.routes = {Route(<<"g", "i", "t", "h", "u", "b">>), Route(<<"s", "l", "a", "c", "k">>)}],
     [DefaultOptions EXCEPT !.replayProtection.storage = "user", !.errorHandler = TRUE,
                            !.routes = {CustomRoute}],
     [DefaultOptions EXCEPT !.routes = {CustomRoutePrefixed, CustomRouteBase64}],
     [DefaultOptions EXCEPT !.routes = {CustomRouteTimestampOnly}]}
    \cup OverrideDeployments

\* The secret of a route's sender: the one the route is configured with, if any.
SenderKey(routeOptions, providers) ==
    LET secret == ResolveSecret(routeOptions, providers) IN
    IF secret.type = "string" /\ secret.value # <<>> THEN secret.value ELSE Secret1

\* The signed requests a route receives, each as payload, secret and seconds.
\* From the holder of the route's secret: one stamped at the start of the
\* model's clock, which every route gets, one stamped 400 s earlier, and for
\* Stripe one stamped 200 s later, for Slack and the providers without a
\* timestamp one whose body is null, for a custom provider one whose body is
\* {}.  From others: one signed with the secret of the providers object and
\* one signed with another secret.
SignedCases(variant, key) ==
    {<<Payload1, key, 1000>>, <<Payload1, key, 600>>,
     <<Payload1, Secret1, 1000>>, <<Payload1, Secret2, 1000>>}
    \cup (IF variant = "stripe"
          THEN {<<Payload1, key, 1200>>, <<Payload1, Secret2, 600>>}
          ELSE {})
    \cup (IF variant \in {"slack", "github", "shopify", "twilio"}
          THEN {<<PayloadNull, key, 1000>>}
          ELSE {})
    \cup (IF variant = "custom" THEN {<<PayloadEmpty, key, 1000>>} ELSE {})

\* What reaches the route when a forwarder has changed the request first.
Forwarded(variant, first, sig, ts) ==
    {WithoutRawBody(first), WithoutHeader(first, sig),
     WithHeader(first, sig, HeaderArray(Header(first, sig).value)),
     WithHeader(first, sig, HeaderString(<<>>))}
    \cup (IF variant = "stripe"
          THEN {WithCaseFlipped(first, sig),
                WithHeader(first, sig, HeaderString(<<"v", "1", "=", "0", "0">>)),
                WithHeader(first, sig, HeaderString(Header(first, sig).value \o <<",", "t", "=">>)),
                WithHeader(first, sig, HeaderString(Drop(Header(first, sig).value, 7)))}
          ELSE {})
    \cup (IF variant = "slack"
          THEN {WithoutHeader(first, ts),
                WithHeader(first, ts, HeaderString(<<"s", "o", "o", "n">>))}
          ELSE {})
    \cup (IF variant \in {"github", "slack", "custom"}
          THEN {WithHeader(first, sig, HeaderString(<<"v", "1", "=", "0", "0">>))}
          ELSE {})
    \cup (IF variant \in {"shopify", "twilio"} THEN {WithCaseFlipped(first, sig)} ELSE {})
    \cup (IF variant = "custom"
          THEN {WithoutHeader(first, ts),
                WithHeader(first, ts, HeaderString(<<"s", "o", "o", "n">>))}
          ELSE {})
    \cup (IF variant = "other"
          THEN {WithHeader(first, <<"u", "n", "d", "e", "f", "i", "n", "e", "d">>, HeaderString(<<"0", "0">>))}
          ELSE {})

\* The requests a route receives: the signed ones, and the first of them as a
\* forwarder may have changed it.
RequestsFor(routeOptions, providers) ==
    LET key == SenderKey(routeOptions, providers)
        made == getProvider(routeOptions.provider, routeOptions.customConfig)
        other == made.threw \/ made.value.variant = "object"
        variant == IF other THEN "other" ELSE made.value.variant
        sig == IF other THEN GitHubProvider.signatureHeader ELSE made.value.signatureHeader
        ts == IF other THEN <<>> ELSE made.value.timestampHeader
    IN  {Sign(routeOptions, c[1], c[2], c[3]) : c \in SignedCases(variant, key)}
        \cup Forwarded(variant, Sign(routeOptions, Payload1, key, 1000), sig, ts)

\* The options of the model's deployments all hold the same providers object,
\* so the requests of a route are the same in each.
RegisteredRoutes == UNION {options.routes : options \in Deployments}

Requests == [routeOptions \in RegisteredRoutes |-> RequestsFor(routeOptions, AllProviders)]

MaxTicks == 2

StartMs == 1000 * 1000

StepMs == 200 * 1000

\* The readings of the model's clock.
ClockValues == {StartMs + k * StepMs : k \in 0..MaxTicks}

\* VerifyRequest over the deployments, routes, requests and clock readings of
\* the model, computed once.
VerifyRequestTable ==
    [options \in Deployments |->
        [routeOptions \in options.routes |->
            [request \in Requests[routeOptions] |->
                [t \in ClockValues |-> VerifyRequest(routeOptions, request, options, t)]]]]

(***************************************************************************)
(* The plugin in its host: registration, requests, the clock, the sweep    *)
(* and the shutdown                                                        *)
(***************************************************************************)

\* No provider-level case: the value of pure while the plugin runs.
NoCase == [phase |-> "none"]

\* The handler of a route is called with a request and runs to its first
\* await: to the error handler or the throw, to replayGuard.check, whose read
\* of the in-memory map is made at the call, or through steps 8 and 9.
Receive(i, routeOptions, request) ==
    /\ ~closed
    /\ h[i].pc \in {"idle", "done"}
    /\ LET ctx == [Idle EXCEPT !.routeOptions = routeOptions, !.request = request]
           p == VerifyRequestTable[opts][routeOptions][request][now]
       IN  h' = [h EXCEPT ![i] =
                IF ~p.ok THEN Settle(ctx, p)
                ELSE IF HasReplayGuard(opts) /\ p.rpEnabled /\ p.timestamp.defined
                THEN [ctx EXCEPT !.pc = "check", !.progress = [p EXCEPT !.stage = "ReplayCheck"],
                                 !.checked = TRUE,
                                 !.isDuplicate =
                                    replayGuard.storage = "memory"
                                    /\ StorageHas(nonces, NonceOf(routeOptions.provider,
                                                                  p.signature, p.timestamp))]
                ELSE Finalize([ctx EXCEPT !.progress = p])]
    /\ UNCHANGED <<opts, now, nonces, timer, closed, pure, accepted>>

\* await replayGuard.check(nonce) resumes: a duplicate is a ReplayAttackError,
\* otherwise replayGuard.record is called, which writes the in-memory map at
\* the call.  A storage of the user answers has when the promise resolves.
AfterCheck(i) ==
    /\ h[i].pc = "check"
    /\ LET ctx == h[i]
           isDuplicate == IF replayGuard.storage = "memory" THEN ctx.isDuplicate
                          ELSE StorageHas(nonces, Nonce(ctx))
           expiresAt == RecordExpiresAt(replayGuard, now)
       IN  IF isDuplicate
           THEN /\ h' = [h EXCEPT ![i] =
                        Settle([ctx EXCEPT !.isDuplicate = TRUE],
                               [Fail("ReplayCheck", ReplayAttackError(ctx.routeOptions.provider))
                                    EXCEPT !.provider = ctx.progress.provider,
                                           !.timestamp = ctx.progress.timestamp,
                                           !.signature = ctx.progress.signature,
                                           !.rpEnabled = ctx.progress.rpEnabled])]
                /\ UNCHANGED nonces
           ELSE /\ h' = [h EXCEPT ![i] = [ctx EXCEPT !.pc = "record", !.recorded = TRUE,
                                                     !.expiresAt = expiresAt]]
                /\ nonces' = IF replayGuard.storage = "memory"
                             THEN StorageSet(nonces, Nonce(ctx), expiresAt)
                             ELSE nonces
    /\ UNCHANGED <<opts, now, timer, closed, pure, accepted>>

\* await replayGuard.record(nonce) resumes, and steps 8 and 9 run.  A storage
\* of the user has made its write by the time the promise resolves.
AfterRecord(i) ==
    /\ h[i].pc = "record"
    /\ h' = [h EXCEPT ![i] = Finalize(h[i])]
    /\ nonces' = IF replayGuard.storage = "memory" THEN nonces
                 ELSE StorageSet(nonces, Nonce(h[i]), h[i].expiresAt)
    /\ accepted' = IF Finalize(h[i]).webhook.set /\ Finalize(h[i]).outcome = "returned"
                   THEN accepted \cup {Triple(h[i])}
                   ELSE accepted
    /\ UNCHANGED <<opts, now, timer, closed, pure>>

\* No handler stands between a call of the in-memory storage and the
\* resumption of its await: those are microtasks, which run before any timer
\* and before the clock is read again.
NoMicrotaskPending ==
    \A i \in DOMAIN h : InFlight(h[i]) => replayGuard.storage # "memory"

\* setInterval(() => this.cleanup(), 60000) fires: at any reading of the
\* model's clock that is an interval or more after the storage was made.
Cleanup ==
    /\ timer.set
    /\ now >= timer.since + CleanupIntervalMs
    /\ NoMicrotaskPending
    /\ nonces' = StorageCleanup(nonces, now)
    /\ UNCHANGED <<opts, now, timer, closed, h, pure, accepted>>

\* The onClose hook: replayGuard.destroy(), which clears the interval and the
\* map of the in-memory storage and leaves a storage of the user alone.
Close ==
    /\ ~closed
    /\ \A i \in DOMAIN h : ~InFlight(h[i])
    /\ closed' = TRUE
    /\ IF HasReplayGuard(opts) /\ replayGuard.storage = "memory"
       THEN /\ timer' = [set |-> FALSE, since |-> 0]
            /\ nonces' = EmptyMap
       ELSE UNCHANGED <<timer, nonces>>
    /\ UNCHANGED <<opts, now, h, pure, accepted>>

\* new InMemoryReplayStorage() sets the interval.
NewTimer(options, t) ==
    IF HasReplayGuard(options) /\ createReplayProtection(options.replayProtection).storage = "memory"
    THEN [set |-> TRUE, since |-> t]
    ELSE [set |-> FALSE, since |-> 0]

\* The state after fastify.register(plugin, options) and the route registrations.
Registered(options, slots) ==
    /\ opts = options
    /\ now = StartMs
    /\ nonces = EmptyMap
    /\ timer = NewTimer(options, StartMs)
    /\ closed = FALSE
    /\ h = [i \in 1..slots |-> Idle]
    /\ pure = NoCase
    /\ accepted = {}

Init == \E options \in Deployments : Registered(options, 1)

ReceiveRequest ==
    \E i \in DOMAIN h : \E routeOptions \in opts.routes :
        \E request \in Requests[routeOptions] :
            Receive(i, routeOptions, request)

CheckResolves == \E i \in DOMAIN h : AfterCheck(i)

RecordResolves == \E i \in DOMAIN h : AfterRecord(i)

\* Time passes, between macrotasks.
Tick ==
    /\ now < StartMs + MaxTicks * StepMs
    /\ NoMicrotaskPending
    /\ now' = now + StepMs
    /\ UNCHANGED <<opts, nonces, timer, closed, h, pure, accepted>>

Next ==
    \/ ReceiveRequest
    \/ CheckResolves
    \/ RecordResolves
    \/ Tick
    \/ Cleanup
    \/ Close

Spec == Init /\ [][Next]_vars

(***************************************************************************)
(* Two handlers at once: the same signed request and a forged one, on the  *)
(* in-memory storage and on a storage of the user                          *)
(***************************************************************************)

ConcurrentDeployments ==
    {options \in Deployments :
        options.routes \in {{Route(<<"s", "t", "r", "i", "p", "e">>)}, {CustomRoute}}}

ConcurrentRequests(routeOptions) ==
    {Sign(routeOptions, Payload1, SenderKey(routeOptions, AllProviders), 1000),
     Sign(routeOptions, Payload1, Secret2, 1000)}

InitConcurrent == \E options \in ConcurrentDeployments : Registered(options, 2)

ReceiveConcurrent ==
    \E i \in DOMAIN h : \E routeOptions \in opts.routes :
        \E request \in Requests[routeOptions] \cap ConcurrentRequests(routeOptions) :
            Receive(i, routeOptions, request)

NextConcurrent ==
    \/ ReceiveConcurrent
    \/ CheckResolves
    \/ RecordResolves
    \/ Tick
    \/ Cleanup
    \/ Close

SpecConcurrent == InitConcurrent /\ [][NextConcurrent]_vars

(***************************************************************************)
(* The providers on their own: a signed body, one bit of the body, of the  *)
(* secret or of the token inverted, and the provider's verdict             *)
(***************************************************************************)

BuiltInProviders ==
    {StripeProvider, GitHubProvider, SlackProvider, ShopifyProvider, TwilioProvider}

NameOf(provider) == CHOOSE n \in RegisteredNames : NewProvider(n) = provider

\* The token the provider extracts from the header the sender's signature
\* function makes, with the rest of the case.
SignedCase(provider, rawBody, secret, seconds) ==
    LET request == Sign(Route(NameOf(provider)), rawBody, secret, seconds)
        token == extractSignature(provider, Header(request, provider.signatureHeader).value)
    IN  [phase |-> "signed", provider |-> provider, rawBody |-> rawBody, secret |-> secret,
         timestamp |-> DateOf(seconds * 1000), token |-> token.value,
         mutation |-> "none", accepted |-> FALSE]

\* provider.verifySignature(token, provider.computeSignature(rawBody, secret, timestamp))
Accepts(provider, rawBody, secret, timestamp, token) ==
    LET expected == computeSignature(provider, rawBody, secret, timestamp) IN
    ~expected.threw /\ verifySignature(provider, token, expected.value)

InitProviders ==
    /\ opts = DefaultOptions
    /\ now = StartMs
    /\ nonces = EmptyMap
    /\ timer = [set |-> FALSE, since |-> 0]
    /\ closed = TRUE
    /\ h = <<>>
    /\ accepted = {}
    /\ pure \in {SignedCase(provider, rawBody, Secret1, seconds) :
                    provider \in BuiltInProviders, rawBody \in {Payload1, PayloadNull},
                    seconds \in {1000}}

MutateRawBody ==
    /\ pure.phase = "signed"
    /\ \E rawBody \in BitMutations(pure.rawBody) :
        pure' = [pure EXCEPT !.phase = "mutated", !.mutation = "rawBody", !.rawBody = rawBody]
    /\ UNCHANGED <<opts, now, nonces, timer, closed, h, accepted>>

MutateSecret ==
    /\ pure.phase = "signed"
    /\ \E secret \in BitMutations(pure.secret) :
        pure' = [pure EXCEPT !.phase = "mutated", !.mutation = "secret", !.secret = secret]
    /\ UNCHANGED <<opts, now, nonces, timer, closed, h, accepted>>

MutateToken ==
    /\ pure.phase = "signed"
    /\ \E token \in BitMutations(pure.token) :
        pure' = [pure EXCEPT !.phase = "mutated", !.mutation = "token", !.token = token]
    /\ UNCHANGED <<opts, now, nonces, timer, closed, h, accepted>>

VerifyCase ==
    /\ pure.phase \in {"signed", "mutated"}
    /\ pure' = [pure EXCEPT !.phase = "verified",
                            !.accepted = Accepts(pure.provider, pure.rawBody, pure.secret,
                                                 pure.timestamp, pure.token)]
    /\ UNCHANGED <<opts, now, nonces, timer, closed, h, accepted>>

NextProviders ==
    \/ MutateRawBody
    \/ MutateSecret
    \/ MutateToken
    \/ VerifyCase

SpecProviders == InitProviders /\ [][NextProviders]_vars

(***************************************************************************)
(* The comparator and the Stripe header parser on their own: chosen        *)
(* tokens compared in both orders, chosen headers parsed                   *)
(***************************************************************************)

\* Token strings: well-formed ones of both encodings, the same in another
\* case or without padding, and strings with characters no encoding has.
Tokens ==
    {<<>>, <<"a", "b">>, <<"A", "B">>, <<"a", "b", "c", "d">>, <<"a", "b", "c">>,
     <<"a", "b", "z", "z">>, <<"z", "z">>, <<"x", "x">>,
     <<"Y", "W", "I", "=">>, <<"Y", "W", "I">>, <<"Y", "W", "J", "j">>,
     <<"Y", "W", "!", "I", "=">>, <<"!", "!", "!", "!">>, <<"Y">>}

\* The keys and the values of the pairs of a Stripe-Signature header.
PairKeys == {<<"t">>, <<"v", "0">>, <<"v", "1">>}

PairValues == {<<>>, <<"1">>, <<"a", "b">>, <<"a", "=", "b">>}

MaxPairs == 3

\* The lists of at most MaxPairs pairs.
PairLists ==
    UNION {[1..n -> PairKeys \X PairValues] : n \in 0..MaxPairs}

RECURSIVE JoinPairs(_)
\* The header a list of pairs stands for: key=value, separated by commas.
JoinPairs(pairs) ==
    IF pairs = <<>> THEN <<>>
    ELSE Head(pairs)[1] \o <<"=">> \o Head(pairs)[2]
            \o (IF Len(pairs) > 1 THEN <<",">> \o JoinPairs(Tail(pairs)) ELSE <<>>)

InitFunctions ==
    /\ opts = DefaultOptions
    /\ now = StartMs
    /\ nonces = EmptyMap
    /\ timer = [set |-> FALSE, since |-> 0]
    /\ closed = TRUE
    /\ h = <<>>
    /\ accepted = {}
    /\ \/ \E a \in Tokens, b \in Tokens, encoding \in {"hex", "base64"} :
            pure = [phase |-> "tokens", a |-> a, b |-> b, encoding |-> encoding]
       \/ \E pairs \in PairLists :
            pure = [phase |-> "header", pairs |-> pairs, headerValue |-> JoinPairs(pairs)]

\* timingSafeCompare(a, b, encoding) and timingSafeCompare(b, a, encoding)
CompareTokens ==
    /\ pure.phase = "tokens"
    /\ pure' = [pure EXCEPT !.phase = "compared"] @@
               [ab |-> timingSafeCompare(pure.a, pure.b, pure.encoding),
                ba |-> timingSafeCompare(pure.b, pure.a, pure.encoding)]
    /\ UNCHANGED <<opts, now, nonces, timer, closed, h, accepted>>

\* new StripeProvider().extractSignature(headerValue)
ExtractFromHeader ==
    /\ pure.phase = "header"
    /\ pure' = [pure EXCEPT !.phase = "extracted"] @@
               [result |-> extractSignature(StripeProvider, pure.headerValue)]
    /\ UNCHANGED <<opts, now, nonces, timer, closed, h, accepted>>

NextFunctions ==
    \/ CompareTokens
    \/ ExtractFromHeader

SpecFunctions == InitFunctions /\ [][NextFunctions]_vars

(***************************************************************************)
(* The replay guard used on its own: createReplayProtection(config), then  *)
(* record, the sweep of the interval and destroy, at chosen instants       *)
(***************************************************************************)

MaxGuardTicks == 4

MaxDestroys == 2

GuardStepMs == 100 * 1000

GuardNonces == {<<"n", "1">>, <<"n", "2">>}

\* The configurations of the guard: the in-memory storage, and a storage of
\* the user that has no destroy.
GuardOptions == {DefaultOptions, [DefaultOptions EXCEPT !.replayProtection.storage = "user"]}

\* A destroy that clears the map and leaves the interval set: what C30 rules
\* out.
DestroyedKeepingTimer(guard, store) ==
    IF guard.storage = "memory" THEN [store EXCEPT !.nonces = EmptyMap] ELSE store

\* The guard's destroy(): InMemoryReplayStorage.destroy() clears the interval
\* and the map; a storage without destroy is not touched.
GuardDestroyed(guard, store) ==
    IF guard.storage = "memory"
    THEN [timer |-> [set |-> FALSE, since |-> 0], nonces |-> EmptyMap]
    ELSE store

InitGuard ==
    /\ opts \in GuardOptions
    /\ now = StartMs
    /\ nonces = EmptyMap
    /\ timer = NewTimer(opts, StartMs)
    /\ closed = FALSE
    /\ h = <<>>
    /\ accepted = {}
    /\ pure = [phase |-> "created", destroys |-> 0, at |-> StartMs,
               before |-> [timer |-> timer, nonces |-> nonces]]

\* await guard.record(nonce)
GuardRecord ==
    /\ \E nonce \in GuardNonces :
        nonces' = StorageSet(nonces, nonce, RecordExpiresAt(replayGuard, now))
    /\ pure' = [pure EXCEPT !.phase = "recorded", !.at = now,
                            !.before = [timer |-> timer, nonces |-> nonces]]
    /\ UNCHANGED <<opts, now, timer, closed, h, accepted>>

GuardTick ==
    /\ now < StartMs + MaxGuardTicks * GuardStepMs
    /\ now' = now + GuardStepMs
    /\ UNCHANGED <<opts, nonces, timer, closed, h, pure, accepted>>

\* The interval fires and cleanup() runs.
GuardSweep ==
    /\ timer.set
    /\ now >= timer.since + CleanupIntervalMs
    /\ nonces' = StorageCleanup(nonces, now)
    /\ pure' = [pure EXCEPT !.phase = "swept", !.at = now,
                            !.before = [timer |-> timer, nonces |-> nonces]]
    /\ UNCHANGED <<opts, now, timer, closed, h, accepted>>

\* guard.destroy()
GuardDestroy ==
    /\ pure.destroys < MaxDestroys
    /\ LET after == GuardDestroyed(replayGuard, [timer |-> timer, nonces |-> nonces])
       IN  timer' = after.timer /\ nonces' = after.nonces
    /\ pure' = [pure EXCEPT !.phase = "destroyed", !.destroys = @ + 1, !.at = now,
                            !.before = [timer |-> timer, nonces |-> nonces]]
    /\ UNCHANGED <<opts, now, closed, h, accepted>>

NextGuard ==
    \/ GuardRecord
    \/ GuardTick
    \/ GuardSweep
    \/ GuardDestroy

SpecGuard == InitGuard /\ [][NextGuard]_vars

(***************************************************************************)
(* A guard over a storage of the user, a plain map with has and set, and a *)
(* guard over the default storage beside it, given the same verifications  *)
(***************************************************************************)

MaxVerifications == 4

\* The guard createReplayProtection returns for the same config without its
\* storage.
DefaultGuardOf(config) == createReplayProtection([config EXCEPT !.storage = "undefined"])

InitStorage ==
    /\ opts = [DefaultOptions EXCEPT !.replayProtection.storage = "user"]
    /\ now = StartMs
    /\ nonces = EmptyMap
    /\ timer = NewTimer(opts, StartMs)
    /\ closed = FALSE
    /\ h = <<>>
    /\ accepted = {}
    /\ pure = [phase |-> "created", verdicts |-> <<>>,
               twin |-> [timer |-> NewTimer(DefaultOptions, StartMs), nonces |-> EmptyMap]]

\* Step 7 of a verification on each guard: await check(nonce), and
\* await record(nonce) when the nonce is new.
StorageVerify ==
    /\ Len(pure.verdicts) < MaxVerifications
    /\ \E nonce \in GuardNonces :
        LET twinGuard == DefaultGuardOf(opts.replayProtection)
            isDuplicate == StorageHas(nonces, nonce)
            twinDuplicate == StorageHas(pure.twin.nonces, nonce)
        IN  /\ nonces' = IF isDuplicate THEN nonces
                         ELSE StorageSet(nonces, nonce, RecordExpiresAt(replayGuard, now))
            /\ pure' = [pure EXCEPT
                    !.phase = "verified",
                    !.verdicts = Append(@, [nonce |-> nonce, user |-> isDuplicate,
                                            default |-> twinDuplicate]),
                    !.twin.nonces = IF twinDuplicate THEN @
                                    ELSE StorageSet(@, nonce, RecordExpiresAt(twinGuard, now))]
    /\ UNCHANGED <<opts, now, timer, closed, h, accepted>>

StorageTick ==
    /\ now < StartMs + MaxGuardTicks * GuardStepMs
    /\ now' = now + GuardStepMs
    /\ UNCHANGED <<opts, nonces, timer, closed, h, pure, accepted>>

NextStorage ==
    \/ StorageVerify
    \/ StorageTick

SpecStorage == InitStorage /\ [][NextStorage]_vars

(***************************************************************************)
(* Properties                                                              *)
(***************************************************************************)

\* The handler of slot i has come to its end in this step.
Ended(i) == h'[i] # h[i] /\ h'[i].pc = "done"

\* The comparison of the handler's own token with the digest of its own body
\* under the secret of its route, made again.
SignatureMatches(ctx) ==
    Accepts(ctx.progress.provider, ctx.request.rawBody.bytes,
            ResolveSecret(ctx.routeOptions, opts.providers).value,
            ctx.progress.timestamp, ctx.progress.signature)

\* The errors of the stages before the replay check.
EarlyErrors ==
    {"MissingSecretError", "MissingRawBodyError", "UnknownProviderError",
     "MissingSignatureError", "TimestampExpiredError", "InvalidSignatureError"}

\* A nonce enters the store, or gets a new expiry, only in a step of a handler
\* that is past the comparison, for its own nonce, and the comparison holds.
StoredByMatch ==
    \A n \in DOMAIN nonces' :
        (n \notin DOMAIN nonces \/ nonces'[n] # nonces[n]) =>
            \E i \in DOMAIN h :
                /\ h[i].pc \in {"check", "record"}
                /\ h'[i].recorded
                /\ Nonce(h[i]) = n
                /\ SignatureMatches(h[i])

\* A handler that ends with an error of an earlier stage has not called
\* record, and its last step leaves the store as it was.
EarlyFailureStoresNothing ==
    \A i \in DOMAIN h :
        Ended(i) /\ h'[i].error.name \in EarlyErrors =>
            ~h'[i].recorded /\ nonces' = nonces

\* C1: every stored nonce was recorded by a verification whose signature
\* comparison had succeeded, and a request that fails with MissingSecret,
\* MissingRawBody, UnknownProvider, MissingSignature, TimestampExpired or
\* InvalidSignature never calls record and leaves the nonce store unchanged.
C1_RecordOnlyAfterMatch == [][StoredByMatch /\ EarlyFailureStoresNothing]_vars

\* A nonce is stored, and a later request has failed its comparison.
C1_Witness ==
    /\ DOMAIN nonces # {}
    /\ \E i \in DOMAIN h :
        h[i].pc = "done" /\ h[i].error.name = "InvalidSignatureError" /\ ~h[i].recorded

\* The requests the holder of a route's secret signs.
SignedByHolder ==
    [routeOptions \in RegisteredRoutes |->
        {Sign(routeOptions, payload, SenderKey(routeOptions, AllProviders), seconds) :
            payload \in {Payload1, PayloadNull}, seconds \in {600, 1000, 1200}}]

ValidlySigned(ctx) == ctx.request \in SignedByHolder[ctx.routeOptions]

\* request.webhook is set, with verified: true.
Verified(ctx) == ctx.webhook.set /\ ctx.webhook.verified

\* Slot i takes again the request it has just verified.
Resubmitted(i) ==
    /\ h[i].pc = "done" /\ Verified(h[i])
    /\ h'[i].pc # "done"
    /\ h'[i].request = h[i].request /\ h'[i].routeOptions = h[i].routeOptions

\* C2: with replay protection enabled and a fresh timestamp, the same validly
\* signed request submitted twice in sequence is verified the first time and
\* a ReplayAttack the second: a validly signed request that reaches the replay
\* check and whose nonce is not found ends verified, one whose nonce is found
\* ends with ReplayAttackError, and the nonce of a verified request is found
\* when the request comes again.
C2_FirstVerifiedSecondReplay ==
    [][\A i \in DOMAIN h :
        /\ Ended(i) /\ h'[i].checked /\ ValidlySigned(h'[i]) /\ ~h'[i].isDuplicate
            => Verified(h'[i])
        /\ Ended(i) /\ h'[i].checked /\ h'[i].isDuplicate
            => h'[i].error.name = "ReplayAttackError"
        /\ Resubmitted(i) /\ h'[i].checked
            => StorageHas(nonces, Nonce(h'[i]))]_vars
\* Slots i and j hold verifications of the same signed payload: both have
\* come to the replay check with the same nonce on the same route.
SameNonce(i, j) ==
    /\ i # j
    /\ h[i].checked /\ h[j].checked
    /\ h[i].routeOptions = h[j].routeOptions
    /\ Nonce(h[i]) = Nonce(h[j])

\* The verification of the slot has been accepted: it is past the replay
\* check with its nonce taken as new.
Accepted(ctx) == ctx.checked /\ ctx.recorded

\* C3: for any interleaving of two concurrent verifications of the same signed
\* payload, over any storage whose has and set are asynchronous, check-then-
\* record is atomic: at most one of the two is accepted, and once both have
\* ended the other has failed with ReplayAttackError.
C3_CheckThenRecordAtomic ==
    \A i, j \in DOMAIN h :
        SameNonce(i, j) /\ Accepted(h[i]) =>
            /\ ~Accepted(h[j])
            /\ h[j].pc = "done" => h[j].error.name = "ReplayAttackError"

\* C4: with the in-memory map of the plugin, where handlers interleave only at
\* the awaits on replayGuard.check and replayGuard.record, two concurrent
\* verifications of the same signed payload are never both accepted.
C4_InMemoryNeverBothAccepted ==
    HasReplayGuard(opts) /\ replayGuard.storage = "memory" =>
        ~\E i, j \in DOMAIN h :
            /\ SameNonce(i, j)
            /\ h[i].pc = "done" /\ Verified(h[i])
            /\ h[j].pc = "done" /\ Verified(h[j])
\* C5: for every built-in provider, body, secret and timestamp, the token
\* computed with the real secret over the provider's payload is accepted by
\* extractSignature, computeSignature and verifySignature, and with one bit of
\* the raw body, of the secret or of the token inverted it is refused.
C5_SignedAcceptedMutatedRefused ==
    pure.phase = "verified" =>
        /\ pure.mutation = "none" => pure.accepted
        /\ pure.mutation \in {"rawBody", "secret", "token"} => ~pure.accepted
\* The identifiers a route may name.
SupportedIdentifiers == RegisteredNames \cup {<<"c", "u", "s", "t", "o", "m">>}

\* The stages in their order.
Stages ==
    <<"ResolveSecret", "RequireRawBody", "ResolveProvider", "ExtractSignatureHeader",
      "ExtractTimestamp", "CheckFreshness", "ComputeAndCompare", "ReplayCheck", "Finalize">>

\* The first of the stages before the replay check that the request of a route
\* violates at time t: no secret, no raw body, an identifier that is not
\* supported or a custom provider without its configuration, no signature
\* header, a timestamp that does not parse, a timestamp out of tolerance, a
\* token that does not match; "none" when it violates none of them.
EarliestViolated(routeOptions, request, t) ==
    LET providerName == routeOptions.provider
        secret == ResolveSecret(routeOptions, opts.providers)
        made == getProvider(providerName, routeOptions.customConfig)
        provider == made.value
        signatureHeader == Header(request, provider.signatureHeader)
        parsed == ExtractTimestamp(provider, providerName, request, signatureHeader.value)
        rpConfig == MergeReplayProtection(opts.replayProtection, routeOptions.replayProtection)
        token == extractSignature(provider, signatureHeader.value)
    IN  IF ~Truthy(secret) THEN Stages[1]
        ELSE IF ~request.rawBody.defined THEN Stages[2]
        ELSE IF providerName \notin SupportedIdentifiers \/ made.threw THEN Stages[3]
        ELSE IF ~IsNonEmptyString(signatureHeader) THEN Stages[4]
        ELSE IF parsed.threw THEN Stages[5]
        ELSE IF rpConfig.enabled /\ parsed.value.defined /\ TimestampExpired(t, parsed.value, rpConfig)
        THEN Stages[6]
        ELSE IF token.threw \/ ~Accepts(provider, request.rawBody.bytes, secret.value, parsed.value, token.value)
        THEN Stages[7]
        ELSE "none"

\* The handler of slot i has executed nothing of the replay check or of the
\* finalization.
NothingLater(i) ==
    /\ ~h'[i].checked /\ ~h'[i].recorded
    /\ ~h'[i].webhook.set /\ h'[i].verifyCalls = 0
    /\ nonces' = nonces

\* Slot i takes a request in this step.
Received(i) == h[i].pc \in {"idle", "done"} /\ h'[i] # h[i]

\* C6: the stages run in the order ResolveSecret, RequireRawBody,
\* ResolveProvider, ExtractSignatureHeader, ExtractTimestamp, CheckFreshness,
\* ComputeAndCompare, ReplayCheck, Finalize and the handler stops at the first
\* that fails: a request that violates one or several of the first seven ends
\* with the error of the earliest one and nothing later is executed, a request
\* that violates none goes on to the replay check or to the finalization, and
\* a duplicate found by the replay check ends there, before the finalization.
C6_StopsAtEarliestViolatedStage ==
    [][\A i \in DOMAIN h :
        /\ Received(i) =>
            LET first == EarliestViolated(h'[i].routeOptions, h'[i].request, now) IN
            IF first # "none"
            THEN /\ h'[i].pc = "done" /\ h'[i].outcome \in {"returned", "threw"}
                 /\ h'[i].error # NoError
                 /\ h'[i].progress.stage = first
                 /\ NothingLater(i)
            ELSE h'[i].progress.stage \in {Stages[8], Stages[9]}
        /\ Ended(i) /\ h'[i].isDuplicate =>
            /\ h'[i].progress.stage = Stages[8]
            /\ ~h'[i].recorded /\ ~h'[i].webhook.set /\ h'[i].verifyCalls = 0]_vars
\* The error of the handler is the exception of the onVerify hook itself, which
\* is called after request.webhook is assigned.
HookThrew(ctx) == ctx.error.name = "Error" /\ ctx.error.message = "onVerify"

\* The request of the slot passed every stage: at a reading of the clock not
\* after this one it violated none of the first seven, the replay check where
\* it applies found its nonce new and recorded it, and the handler is in the
\* finalization.
PassedEveryStage(ctx) ==
    /\ \E t \in ClockValues :
        t <= now /\ EarliestViolated(ctx.routeOptions, ctx.request, t) = "none"
    /\ ctx.checked => ~ctx.isDuplicate /\ ctx.recorded
    /\ HasReplayGuard(opts) /\ ctx.progress.rpEnabled /\ ctx.progress.timestamp.defined
        => ctx.checked
    /\ ctx.progress.stage = "Finalize"

TypedErrors == EarlyErrors \cup {"ReplayAttackError"}

\* C8: with an error handler configured, each failing transition
\* (MissingSecret, MissingRawBody, UnknownProvider, MissingSignature,
\* TimestampExpired, InvalidSignature, ReplayAttack) calls the handler exactly
\* once with the typed error and the verification throws nothing; with no
\* handler the typed error is thrown to the caller.
C8_HandlerGetsEveryFailure ==
    [][\A i \in DOMAIN h :
        Ended(i) /\ h'[i].error.name \in TypedErrors =>
            IF opts.errorHandler
            THEN h'[i].outcome = "returned" /\ h'[i].handled = 1
            ELSE h'[i].outcome = "threw" /\ h'[i].handled = 0]_vars
\* A provider operation raises a parse or format violation in the verification
\* of the request of a route at time t: with the secret, the raw body, a
\* supported provider and the signature header present, parseTimestamp throws,
\* or, the timestamp being in tolerance, extractSignature or computeSignature
\* throws.
ParseViolation(routeOptions, request, t) ==
    LET providerName == routeOptions.provider
        secret == ResolveSecret(routeOptions, opts.providers)
        made == getProvider(providerName, routeOptions.customConfig)
        provider == made.value
        signatureHeader == Header(request, provider.signatureHeader)
        parsed == ExtractTimestamp(provider, providerName, request, signatureHeader.value)
        rpConfig == MergeReplayProtection(opts.replayProtection, routeOptions.replayProtection)
    IN  /\ Truthy(secret) /\ request.rawBody.defined
        /\ providerName \in SupportedIdentifiers /\ ~made.threw
        /\ IsNonEmptyString(signatureHeader)
        /\ \/ parsed.threw
           \/ /\ ~(rpConfig.enabled /\ parsed.value.defined
                    /\ TimestampExpired(t, parsed.value, rpConfig))
              /\ \/ extractSignature(provider, signatureHeader.value).threw
                 \/ computeSignature(provider, request.rawBody.bytes, secret.value,
                                     parsed.value).threw

\* C9: a parse or format violation raised by a provider operation during the
\* verification (extractSignature finding no marker or prefix, the Stripe
\* parseTimestamp finding no t= field, the Stripe or Slack computeSignature
\* called without a timestamp) is reported as InvalidSignature, never as an
\* untyped error with the internal parse message.
C9_ParseViolationIsInvalidSignature ==
    [][\A i \in DOMAIN h :
        Received(i) /\ ParseViolation(h'[i].routeOptions, h'[i].request, now) =>
            /\ h'[i].pc = "done"
            /\ h'[i].error.name = "InvalidSignatureError"
            /\ h'[i].error.message = ""]_vars
\* C10: a verification whose provider identifier is not one of stripe, github,
\* slack, shopify, twilio, custom ends with UnknownProvider, whatever the
\* headers, the body, the secret of the route and the map of secrets.
C10_UnknownProviderAlways ==
    [][\A i \in DOMAIN h :
        Received(i) /\ h'[i].routeOptions.provider \notin SupportedIdentifiers =>
            /\ h'[i].pc = "done"
            /\ h'[i].error.name = "UnknownProviderError"
            /\ h'[i].error.code = "UNKNOWN_PROVIDER"]_vars
\* The variant of the provider class registered under a built-in name.
VariantOf(name) ==
    CASE name = <<"s", "t", "r", "i", "p", "e">> -> "stripe"
      [] name = <<"g", "i", "t", "h", "u", "b">> -> "github"
      [] name = <<"s", "l", "a", "c", "k">> -> "slack"
      [] name = <<"s", "h", "o", "p", "i", "f", "y">> -> "shopify"
      [] name = <<"t", "w", "i", "l", "i", "o">> -> "twilio"

\* getProvider fails closed on the identifier and configuration of a route.
FailsClosed(name, customConfig) ==
    LET made == getProvider(name, customConfig) IN
    IF name \in RegisteredNames
    THEN ~made.threw /\ made.value.variant = VariantOf(name)
    ELSE IF name = <<"c", "u", "s", "t", "o", "m">>
    THEN IF customConfig.present
         THEN ~made.threw /\ made.value.variant = "custom"
         ELSE made.threw
    ELSE /\ made.threw
         /\ ThrownError(made, name) = UnknownProviderError(name)

\* C11: getProvider fails closed.  For the identifier of every route whose
\* handler has been called: any identifier other than the five built-in names
\* and custom throws UnknownProviderError carrying the identifier, custom
\* without a configuration fails, and a built-in name returns a new provider
\* of the matching variant.
C11_GetProviderFailsClosed ==
    \A i \in DOMAIN h :
        h[i].pc # "idle" => FailsClosed(h[i].routeOptions.provider, h[i].routeOptions.customConfig)
\* The replay-protection setting in effect on a route: the route's own where
\* it gives one, the global one otherwise, 300 seconds where neither gives a
\* tolerance.
EffectiveEnabled(routeOptions) ==
    IF routeOptions.replayProtection.enabled = "undefined" THEN opts.replayProtection.enabled
    ELSE routeOptions.replayProtection.enabled = "true"

EffectiveTolerance(routeOptions) ==
    IF routeOptions.replayProtection.tolerance.defined
    THEN routeOptions.replayProtection.tolerance.value
    ELSE IF opts.replayProtection.tolerance.defined THEN opts.replayProtection.tolerance.value
    ELSE 300

\* The timestamp the handler obtains from the request of a route that has its
\* secret, its raw body, its provider and its signature header: undefined when
\* one of these fails or the provider has no timestamp for the request.
ObtainedTimestamp(routeOptions, request) ==
    LET providerName == routeOptions.provider
        made == getProvider(providerName, routeOptions.customConfig)
        provider == made.value
        signatureHeader == Header(request, provider.signatureHeader)
        parsed == ExtractTimestamp(provider, providerName, request, signatureHeader.value)
    IN  IF /\ Truthy(ResolveSecret(routeOptions, opts.providers))
           /\ request.rawBody.defined
           /\ ~made.threw
           /\ IsNonEmptyString(signatureHeader)
           /\ ~parsed.threw
        THEN parsed.value
        ELSE NoDate

\* |t - timestamp| <= tolerance seconds; of a timestamp that is no number,
\* false as every comparison with NaN.
WithinTolerance(t, timestamp, tolerance) ==
    ~timestamp.nan /\ Abs(t - timestamp.ms) <= tolerance * 1000

\* C12: with replay protection in effect on the route (enabled, with 300
\* seconds, when no option is given) and a timestamp obtained, the request
\* passes CheckFreshness if and only if |now - timestamp| <= tolerance, in the
\* past and in the future alike, and fails otherwise with TimestampExpired
\* carrying the timestamp and the tolerance in effect.
C12_FreshIffWithinTolerance ==
    [][\A i \in DOMAIN h :
        LET routeOptions == h'[i].routeOptions
            timestamp == ObtainedTimestamp(routeOptions, h'[i].request)
        IN  Received(i) /\ EffectiveEnabled(routeOptions) /\ timestamp.defined =>
                IF WithinTolerance(now, timestamp, EffectiveTolerance(routeOptions))
                THEN /\ h'[i].progress.stage \in {"ComputeAndCompare", "ReplayCheck", "Finalize"}
                     /\ h'[i].error.name # "TimestampExpiredError"
                ELSE /\ h'[i].progress.stage = "CheckFreshness"
                     /\ h'[i].error = TimestampExpiredError(routeOptions.provider, timestamp,
                                                            EffectiveTolerance(routeOptions))]_vars
\* The signature of the request of a route is valid: its token is extracted
\* from the signature header and matches the digest of its raw body under the
\* secret of the route, with the timestamp the request carries.
SignatureValid(routeOptions, request) ==
    LET providerName == routeOptions.provider
        secret == ResolveSecret(routeOptions, opts.providers)
        made == getProvider(providerName, routeOptions.customConfig)
        provider == made.value
        signatureHeader == Header(request, provider.signatureHeader)
        parsed == ExtractTimestamp(provider, providerName, request, signatureHeader.value)
        token == extractSignature(provider, signatureHeader.value)
    IN  /\ Truthy(secret) /\ request.rawBody.defined
        /\ ~made.threw /\ IsNonEmptyString(signatureHeader)
        /\ ~parsed.threw /\ ~token.threw
        /\ Accepts(provider, request.rawBody.bytes, secret.value, parsed.value, token.value)

\* C13: a verification fails with TimestampExpired only for a request whose
\* signature is valid; no request with an invalid or malformed signature is
\* reported as TimestampExpired.
C13_ExpiredOnlyIfSignatureValid ==
    \A i \in DOMAIN h :
        h[i].pc = "done" /\ h[i].error.name = "TimestampExpiredError" =>
            SignatureValid(h[i].routeOptions, h[i].request)
\* C14: a verification fails with ReplayAttack only for a request whose
\* signature is valid and whose timestamp is within the tolerance in effect
\* when the handler checked it: at this reading of the clock on the in-memory
\* storage, whose awaits let no time pass, and at this or an earlier reading
\* on a storage of the user.
C14_ReplayOnlyIfValidAndFresh ==
    [][\A i \in DOMAIN h :
        Ended(i) /\ h'[i].error.name = "ReplayAttackError" =>
            LET routeOptions == h'[i].routeOptions
                timestamp == ObtainedTimestamp(routeOptions, h'[i].request)
                tolerance == EffectiveTolerance(routeOptions)
            IN  /\ SignatureValid(routeOptions, h'[i].request)
                /\ EffectiveEnabled(routeOptions) /\ timestamp.defined
                /\ \E t \in ClockValues : t <= now /\ WithinTolerance(t, timestamp, tolerance)
                /\ replayGuard.storage = "memory" => WithinTolerance(now, timestamp, tolerance)]_vars

\* A request has been rejected as a replay.
C14_Witness ==
    \E i \in DOMAIN h :
        /\ h[i].pc = "done" /\ h[i].error = ReplayAttackError(h[i].routeOptions.provider)
        /\ h[i].checked /\ h[i].isDuplicate
        /\ StorageHas(nonces, Nonce(h[i]))
\* The handler of the slot has accepted its request: it returned with the
\* result on the request.
AcceptedRequest(ctx) == ctx.pc = "done" /\ ctx.outcome = "returned" /\ Verified(ctx)

\* A request with the same provider and timestamp and another token was
\* accepted earlier.
OtherBodyAccepted(ctx) ==
    \E a \in accepted :
        /\ a.provider = Triple(ctx).provider /\ a.timestamp = Triple(ctx).timestamp
        /\ a.signature # Triple(ctx).signature

\* C15: a request is rejected as ReplayAttack only if a request with the same
\* provider, signature token and timestamp was accepted earlier; and a valid
\* request that differs in body, hence in token, from one accepted earlier
\* with the same timestamp, and that was not accepted itself, is accepted too,
\* whichever of the two came first.
C15_ReplayOnlyOfAccepted ==
    [][\A i \in DOMAIN h :
        /\ Ended(i) /\ h'[i].error.name = "ReplayAttackError" => Triple(h'[i]) \in accepted
        /\ /\ Ended(i) /\ h'[i].checked
           /\ SignatureValid(h'[i].routeOptions, h'[i].request)
           /\ Triple(h'[i]) \notin accepted /\ OtherBodyAccepted(h'[i])
           => AcceptedRequest(h'[i])]_vars
\* C16: with replay protection disabled, globally or by a route's override of
\* an enabled global setting, every verification of a valid request, however
\* often the request comes, yields a verified result, and none reads or writes
\* the nonce store.
C16_DisabledIsIdempotent ==
    [][\A i \in DOMAIN h :
        /\ Received(i)
        /\ ~EffectiveEnabled(h'[i].routeOptions)
        /\ SignatureValid(h'[i].routeOptions, h'[i].request)
        => /\ h'[i].pc = "done" /\ Verified(h'[i])
           /\ ~h'[i].checked /\ ~h'[i].recorded
           /\ nonces' = nonces]_vars
\* C17: the setting in effect on a route is the global one overridden by the
\* route's, and whenever it is enabled and a timestamp exists the nonce is
\* checked and recorded: a valid, fresh request on such a route, one that
\* enables replay protection while the global setting is disabled in
\* particular, goes to the replay check, and one that reaches the check after
\* a request with its provider, token and timestamp was accepted fails with
\* ReplayAttack.
C17_EffectiveSettingDecides ==
    [][\A i \in DOMAIN h :
        LET routeOptions == h'[i].routeOptions
            timestamp == ObtainedTimestamp(routeOptions, h'[i].request)
        IN  /\ /\ Received(i)
               /\ EffectiveEnabled(routeOptions) /\ timestamp.defined
               /\ WithinTolerance(now, timestamp, EffectiveTolerance(routeOptions))
               /\ SignatureValid(routeOptions, h'[i].request)
               => h'[i].pc = "check" /\ h'[i].checked
            /\ h[i].pc = "check" /\ h'[i] # h[i] /\ Triple(h[i]) \in accepted
               => h'[i].pc = "done" /\ h'[i].error.name = "ReplayAttackError"]_vars
\* The provider of the route has no timestamp: GitHub, Shopify, Twilio, or a
\* custom provider that declares no timestamp header.
NoTimestampProvider(routeOptions) ==
    \/ routeOptions.provider \in {<<"g", "i", "t", "h", "u", "b">>, <<"s", "h", "o", "p", "i", "f", "y">>, <<"t", "w", "i", "l", "i", "o">>}
    \/ /\ routeOptions.provider = <<"c", "u", "s", "t", "o", "m">>
       /\ routeOptions.customConfig.present
       /\ routeOptions.customConfig.timestampHeader = <<>>

\* C18: for a provider without a timestamp no verification builds a nonce or
\* reads or writes the nonce store, and the freshness check is skipped without
\* failure: with replay protection enabled too, a valid request is verified
\* on every submission, and returns unless the onVerify hook throws.
C18_NoTimestampNoNonce ==
    [][\A i \in DOMAIN h :
        Received(i) /\ NoTimestampProvider(h'[i].routeOptions) =>
            /\ h'[i].pc = "done"
            /\ ~h'[i].checked /\ ~h'[i].recorded /\ ~h'[i].progress.timestamp.defined
            /\ nonces' = nonces
            /\ h'[i].error.name \notin {"TimestampExpiredError", "ReplayAttackError"}
            /\ SignatureValid(h'[i].routeOptions, h'[i].request) =>
                /\ Verified(h'[i])
                /\ opts.onVerify # "throws" => h'[i].outcome = "returned"]_vars

\* With replay protection enabled and the clock two steps on, a valid request
\* to a provider without a timestamp is verified, and no nonce is stored.
C18_Witness ==
    /\ HasReplayGuard(opts) /\ now = StartMs + 2 * StepMs /\ nonces = EmptyMap
    /\ \E i \in DOMAIN h :
        /\ NoTimestampProvider(h[i].routeOptions) /\ EffectiveEnabled(h[i].routeOptions)
        /\ h[i].pc = "done" /\ Verified(h[i]) /\ ~h[i].checked
\* The secret a route is to verify with: its own when it has one, else for a
\* built-in provider the entry of the global map, else none.
ExpectedSecret(routeOptions, providers) ==
    IF routeOptions.secret.type = "string" /\ routeOptions.secret.value # <<>>
    THEN routeOptions.secret
    ELSE IF routeOptions.provider \in RegisteredNames /\ routeOptions.provider \in DOMAIN providers
    THEN SecretString(providers[routeOptions.provider])
    ELSE NoSecret

\* The request of a route carries a token that matches the digest of its raw
\* body under this secret.
ValidUnder(routeOptions, request, secret) ==
    LET made == getProvider(routeOptions.provider, routeOptions.customConfig)
        provider == made.value
        signatureHeader == Header(request, provider.signatureHeader)
        parsed == ExtractTimestamp(provider, routeOptions.provider, request, signatureHeader.value)
        token == extractSignature(provider, signatureHeader.value)
    IN  /\ request.rawBody.defined /\ ~made.threw /\ IsNonEmptyString(signatureHeader)
        /\ ~parsed.threw /\ ~token.threw
        /\ Accepts(provider, request.rawBody.bytes, secret.value, parsed.value, token.value)

\* C19: the secret of a verification is the route's when the route has one,
\* whatever the global map holds for the provider, else for a built-in
\* provider the global map's entry, and never the global map's for a custom
\* provider; a request passes the comparison exactly when its signature is
\* valid under that secret, and when there is no such secret the verification
\* fails with MissingSecret at the first stage.
C19_SecretResolution ==
    [][\A i \in DOMAIN h :
        LET routeOptions == h'[i].routeOptions
            request == h'[i].request
            secret == ExpectedSecret(routeOptions, opts.providers)
        IN  Received(i) =>
                IF secret.type = "undefined"
                THEN /\ h'[i].pc = "done" /\ h'[i].progress.stage = "ResolveSecret"
                     /\ h'[i].error = MissingSecretError(routeOptions.provider)
                ELSE /\ h'[i].error.name # "MissingSecretError"
                     /\ h'[i].progress.ok => ValidUnder(routeOptions, request, secret)
                     /\ ValidUnder(routeOptions, request, secret) =>
                            h'[i].error.name # "InvalidSignatureError"]_vars
\* The secret, the raw body and the provider of the request are resolved.
ResolvedProvider(routeOptions, request) ==
    /\ Truthy(ResolveSecret(routeOptions, opts.providers))
    /\ request.rawBody.defined
    /\ ~getProvider(routeOptions.provider, routeOptions.customConfig).threw

\* The header of the request under the name of the provider's signature header.
SignatureHeaderOf(routeOptions, request) ==
    Header(request, getProvider(routeOptions.provider, routeOptions.customConfig).value.signatureHeader)

\* C20: once the secret, the raw body and the provider are resolved, a request
\* whose signature header is absent, empty or multi-valued fails with
\* MissingSignature at the header stage: no token is extracted and no
\* signature is computed for it.
C20_MissingSignature ==
    [][\A i \in DOMAIN h :
        LET routeOptions == h'[i].routeOptions
            header == SignatureHeaderOf(routeOptions, h'[i].request)
        IN  /\ Received(i) /\ ResolvedProvider(routeOptions, h'[i].request)
            /\ header.type # "string" \/ header.value = <<>>
            => /\ h'[i].pc = "done" /\ ~h'[i].progress.ok
               /\ h'[i].progress.stage = "ExtractSignatureHeader"
               /\ h'[i].error = MissingSignatureError(routeOptions.provider)
               /\ h'[i].progress.signature = Progress.signature
               /\ ~h'[i].webhook.set /\ nonces' = nonces]_vars

\* A request with an empty signature header has been refused with
\* MissingSignature on a route whose secret, raw body and provider resolve.
C20_Witness ==
    \E i \in DOMAIN h :
        /\ h[i].pc = "done" /\ ResolvedProvider(h[i].routeOptions, h[i].request)
        /\ SignatureHeaderOf(h[i].routeOptions, h[i].request) = HeaderString(<<>>)
        /\ h[i].error.name = "MissingSignatureError"
\* The code string and the status hint of each error kind.
ErrorKinds ==
    [MissingSecretError |-> [code |-> "MISSING_SECRET", statusCode |-> 500],
     MissingRawBodyError |-> [code |-> "MISSING_RAW_BODY", statusCode |-> 500],
     UnknownProviderError |-> [code |-> "UNKNOWN_PROVIDER", statusCode |-> 400],
     MissingSignatureError |-> [code |-> "MISSING_SIGNATURE", statusCode |-> 401],
     InvalidSignatureError |-> [code |-> "INVALID_SIGNATURE", statusCode |-> 401],
     TimestampExpiredError |-> [code |-> "TIMESTAMP_EXPIRED", statusCode |-> 401],
     ReplayAttackError |-> [code |-> "REPLAY_ATTACK", statusCode |-> 401]]

\* C21: the seven error kinds are distinct, each with a code string of its
\* own and its fixed status hint (500 for MissingSecret and MissingRawBody,
\* 400 for UnknownProvider, 401 for the four others), and each carries the
\* provider identifier of the route, MissingRawBody alone carrying none.
C21_ErrorKindsDistinct ==
    /\ \A k1, k2 \in DOMAIN ErrorKinds : ErrorKinds[k1].code = ErrorKinds[k2].code => k1 = k2
    /\ \A i \in DOMAIN h :
        h[i].error.name \in DOMAIN ErrorKinds =>
            /\ h[i].error.code = ErrorKinds[h[i].error.name].code
            /\ h[i].error.statusCode = ErrorKinds[h[i].error.name].statusCode
            /\ h[i].error.provider = IF h[i].error.name = "MissingRawBodyError"
                                     THEN Undefined
                                     ELSE Defined(h[i].routeOptions.provider)

\* A verification has ended with UnknownProvider, of status 400 and with the
\* route's provider option.
C21_Witness ==
    \E i \in DOMAIN h :
        /\ h[i].pc = "done" /\ h[i].error.name = "UnknownProviderError"
        /\ h[i].error.statusCode = 400
        /\ h[i].error.provider = Defined(h[i].routeOptions.provider)
\* A well-formed token of the encoding: an even number of hexadecimal digits,
\* or groups of four characters of the standard base64 alphabet, the last
\* group ending in at most two "=".
WellFormed(x, encoding) ==
    IF encoding = "hex"
    THEN Len(x) % 2 = 0 /\ \A i \in 1..Len(x) : HexValue(x[i]) >= 0
    ELSE /\ Len(x) % 4 = 0
         /\ \A i \in 1..Len(x) :
                \/ \E n \in 1..64 : Base64Alphabet[n] = x[i]
                \/ x[i] = "=" /\ i >= Len(x) - 1 /\ \A j \in i..Len(x) : x[j] = "="

\* C22: timingSafeCompare is symmetric, compare(x, y, enc) = compare(y, x, enc)
\* for all token strings, and reflexive, compare(x, x, enc) is true for every
\* well-formed token x, in both encodings.
C22_CompareReflexiveSymmetric ==
    pure.phase = "compared" =>
        /\ pure.ab = pure.ba
        /\ pure.a = pure.b /\ WellFormed(pure.a, pure.encoding) => pure.ab

\* A well-formed base64 token has been compared with itself, in both orders,
\* and found equal.
C22_Witness ==
    /\ pure.phase = "compared" /\ pure.encoding = "base64"
    /\ pure.a = <<"Y", "W", "I", "=">> /\ pure.b = pure.a /\ pure.ab
ReplayApplies(ctx) ==
    HasReplayGuard(opts) /\ ctx.progress.rpEnabled /\ ctx.progress.timestamp.defined

\* C24: on a successful verification the nonce is recorded first, where the
\* replay step applies, then the webhook data is attached to the request, then
\* the onVerify hook is invoked: the data is attached only by a handler whose
\* record call was made and has resolved, with the nonce in the store, and a
\* configured hook is invoked once, at the attachment and never without it,
\* with valid = true and the provider, timestamp and event type attached.
C24_RecordAttachHook ==
    [][\A i \in DOMAIN h :
        /\ h'[i].webhook.set /\ h'[i] # h[i] =>
            /\ ReplayApplies(h'[i]) =>
                /\ h[i].pc = "record" /\ h[i].recorded
                /\ StorageHas(nonces', Nonce(h[i]))
                /\ replayGuard.storage = "memory" => StorageHas(nonces, Nonce(h[i]))
            /\ opts.onVerify # "undefined" =>
                /\ h'[i].verifyCalls = 1
                /\ h'[i].verifyResult = [valid |-> TRUE, provider |-> h'[i].webhook.provider,
                                         timestamp |-> h'[i].webhook.timestamp,
                                         eventType |-> h'[i].webhook.eventType]
        /\ ~h'[i].webhook.set => h'[i].verifyCalls = 0 /\ h'[i].verifyResult = NoResult]_vars

\* A request whose nonce was recorded has its webhook data attached and the
\* hook called once with it.
C24_Witness ==
    \E i \in DOMAIN h :
        /\ h[i].pc = "done" /\ h[i].recorded /\ Verified(h[i])
        /\ opts.onVerify = "returns" /\ h[i].verifyCalls = 1
        /\ h[i].verifyResult.valid /\ h[i].verifyResult.eventType = h[i].webhook.eventType
        /\ h[i].webhook.eventType.defined
\* The freshness check lets the request of the route through at time t: replay
\* protection is not in effect, or the request has no timestamp, or its
\* timestamp is within the tolerance.
FreshOrUnchecked(routeOptions, request, t) ==
    LET timestamp == ObtainedTimestamp(routeOptions, request) IN
    \/ ~EffectiveEnabled(routeOptions)
    \/ ~timestamp.defined
    \/ WithinTolerance(t, timestamp, EffectiveTolerance(routeOptions))

\* C25: a custom provider finds its signature and timestamp headers whatever
\* the case they were configured in, takes as token the extractor's result or
\* the header itself, signs the builder's result for the raw body and the
\* seconds of the timestamp, or the raw body, and encodes in hex unless
\* configured: a request signed by the sender's formula with the secret of
\* the route passes the comparison, and one signed with another secret fails
\* with InvalidSignature.
C25_CustomProvider ==
    [][\A i \in DOMAIN h :
        LET routeOptions == h'[i].routeOptions IN
        /\ Received(i)
        /\ routeOptions.provider = <<"c", "u", "s", "t", "o", "m">>
        /\ routeOptions.customConfig.present /\ routeOptions.secret.type = "string"
        /\ FreshOrUnchecked(routeOptions, h'[i].request, now)
        => \A payload \in {Payload1, PayloadEmpty}, key \in {Secret1, Secret2}, seconds \in {600, 1000} :
                h'[i].request = Sign(routeOptions, payload, key, seconds) =>
                    IF key = routeOptions.secret.value
                    THEN h'[i].progress.ok /\ h'[i].error.name # "InvalidSignatureError"
                    ELSE h'[i].pc = "done" /\ h'[i].error = InvalidSignatureError(routeOptions.provider)]_vars

\* A request signed in base64 over the builder's payload has been verified on
\* the custom route that configures base64.
C25_Witness ==
    \E i \in DOMAIN h :
        /\ h[i].routeOptions = CustomRouteBase64
        /\ h[i].pc = "done" /\ Verified(h[i]) /\ h[i].webhook.timestamp.defined
\* A value as far as its first "=".
UpToEquals(v) ==
    IF \E i \in 1..Len(v) : v[i] = "="
    THEN SubSeq(v, 1, (CHOOSE i \in 1..Len(v) : v[i] = "=" /\ \A j \in 1..(i - 1) : v[j] # "=") - 1)
    ELSE v

\* The value of the first pair of the list with this key.
RECURSIVE ValueOfKey(_, _)
ValueOfKey(pairs, key) ==
    IF pairs = <<>> THEN Undefined
    ELSE IF Head(pairs)[1] = key THEN Defined(Head(pairs)[2])
    ELSE ValueOfKey(Tail(pairs), key)

\* The value, as far as its first "=", of the first pair of the list with this
\* key of which that is not empty.
RECURSIVE NonEmptyValueOfKey(_, _)
NonEmptyValueOfKey(pairs, key) ==
    IF pairs = <<>> THEN Undefined
    ELSE IF Head(pairs)[1] = key /\ UpToEquals(Head(pairs)[2]) # <<>>
    THEN Defined(UpToEquals(Head(pairs)[2]))
    ELSE NonEmptyValueOfKey(Tail(pairs), key)

\* C26 as stated: for every header of comma-separated pairs, Stripe's
\* extractSignature returns the value of the key v1, wherever the pair stands
\* and whatever other keys there are, and fails when no pair has the key v1.
C26_StripeExtractsV1 ==
    pure.phase = "extracted" =>
        LET v1 == ValueOfKey(pure.pairs, <<"v", "1">>) IN
        IF v1.defined
        THEN ~pure.result.threw /\ pure.result.value = v1.value
        ELSE pure.result.threw

\* C26, amended: extractSignature returns the value, as far as its first "=",
\* of the first pair whose key is v1 and of which that is not empty, wherever
\* the pair stands and whatever other pairs there are, and fails when there is
\* no such pair: a v1 pair with an empty value counts as absent.
C26_StripeExtractsNonEmptyV1 ==
    pure.phase = "extracted" =>
        LET v1 == NonEmptyValueOfKey(pure.pairs, <<"v", "1">>) IN
        IF v1.defined
        THEN ~pure.result.threw /\ pure.result.value = v1.value
        ELSE /\ pure.result.threw
             /\ pure.result.message = "No v1 signature found in Stripe-Signature header"

\* The token of a v1 pair that stands last, behind a t and a v0 pair, has been
\* extracted.
C26_Witness ==
    /\ pure.phase = "extracted"
    /\ pure.pairs = <<<<(<<"t">>), (<<"1">>)>>, <<(<<"v", "0">>), (<<"1">>)>>, <<(<<"v", "1">>), (<<"a", "b">>)>>>>
    /\ pure.result = Return(<<"a", "b">>)

\* The event type the handler is to put on the request: the type field of the
\* decoded body for Stripe and Slack when it is a string, and none otherwise.
ExpectedEventType(provider, body) ==
    IF provider.variant \in {"stripe", "slack"} /\ ~body.isNull /\ body.typeIsString
    THEN Defined(body.type)
    ELSE Undefined

\* C27: extractEventType is total.  A request that passed the comparison of
\* the signatures and the replay check, that is, one whose handler ended in
\* the finalization, always has the verified result on it, with the body's
\* type field as its event type for Stripe and Slack when that is a string and
\* none otherwise, and none for every other provider.
C27_EventTypeTotal ==
    \A i \in DOMAIN h :
        h[i].pc = "done" /\ h[i].progress.stage = "Finalize" =>
            /\ Verified(h[i])
            /\ h[i].webhook.eventType = ExpectedEventType(h[i].progress.provider, h[i].request.body)

\* C28: record stores the nonce with expiry = now + tolerance * 1000 ms, the
\* tolerance being the one in effect for the request being verified: the
\* route's own where the route gives one, the global one otherwise, 300
\* seconds where neither does.
C28_RecordExpiry ==
    [][\A i \in DOMAIN h :
        h[i].pc = "check" /\ h'[i].pc = "record" =>
            /\ h'[i].expiresAt = now + EffectiveTolerance(h[i].routeOptions) * 1000
            /\ replayGuard.storage = "memory" => nonces'[Nonce(h[i])] = h'[i].expiresAt]_vars

\* The store holds the nonce with an expiry that has not passed at t, or does
\* not hold it.
NotExpiredAt(map, nonce, t) == nonce \in DOMAIN map => ~(map[nonce] < t)

\* C29: a sweep of the default store deletes exactly the entries whose expiry
\* instant has passed and leaves every other entry with its expiry; it adds no
\* entry, and check answers after it as before it for every nonce that has not
\* expired.
C29_SweepDeletesExpired ==
    pure.phase = "swept" =>
        /\ \A nonce \in DOMAIN pure.before.nonces :
            IF pure.before.nonces[nonce] < pure.at
            THEN nonce \notin DOMAIN nonces
            ELSE nonce \in DOMAIN nonces /\ nonces[nonce] = pure.before.nonces[nonce]
        /\ DOMAIN nonces \subseteq DOMAIN pure.before.nonces
        /\ \A nonce \in GuardNonces :
            NotExpiredAt(pure.before.nonces, nonce, pure.at)
                => StorageHas(nonces, nonce) = StorageHas(pure.before.nonces, nonce)

\* A sweep of a store with an entry whose expiry has passed and one that
\* expires at the instant of the sweep: the first is gone, the second stays.
C29_Witness ==
    /\ pure.phase = "swept"
    /\ \E gone \in DOMAIN pure.before.nonces, kept \in DOMAIN pure.before.nonces :
        /\ pure.before.nonces[gone] < pure.at /\ gone \notin DOMAIN nonces
        /\ pure.before.nonces[kept] = pure.at /\ kept \in DOMAIN nonces

\* C30: the sweep timer of the default store lives exactly as long as its
\* guard.  It is set from the creation of the guard until destroy, destroy
\* clears it and empties the store, no sweep runs after a destroy, and a
\* second destroy leaves what the first left; over a storage of the user
\* without destroy there is no timer and destroy changes nothing.
C30_TimerLivesWithGuard ==
    /\ replayGuard.storage = "memory" =>
        /\ timer.set <=> pure.destroys = 0
        /\ timer.set => timer.since = StartMs
        /\ pure.phase = "swept" => pure.destroys = 0 /\ pure.before.timer.set
        /\ pure.phase = "destroyed" =>
            /\ nonces = EmptyMap
            /\ pure.destroys > 1 /\ pure.before.nonces = EmptyMap /\ ~pure.before.timer.set
                => timer = pure.before.timer
    /\ replayGuard.storage # "memory" =>
        /\ ~timer.set /\ pure.phase # "swept"
        /\ pure.phase = "destroyed" => timer = pure.before.timer /\ nonces = pure.before.nonces

\* A second destroy straight after the first, which had emptied a store with
\* an entry and cleared the timer.
C30_Witness ==
    /\ replayGuard.storage = "memory"
    /\ pure.phase = "destroyed" /\ pure.destroys = 2
    /\ pure.before = [timer |-> [set |-> FALSE, since |-> 0], nonces |-> EmptyMap]
    /\ timer = pure.before.timer /\ nonces = EmptyMap

\* A destroy of a guard over a storage of the user that holds a nonce.
C30_WitnessUserStorage ==
    /\ replayGuard.storage = "user"
    /\ pure.phase = "destroyed"
    /\ nonces # EmptyMap /\ nonces = pure.before.nonces

SameSignedMessage(ctx, triple) ==
    /\ triple.provider = ctx.routeOptions.provider
    /\ triple.timestamp = ctx.progress.timestamp
    /\ BufferFrom(triple.signature, ctx.progress.provider.signatureEncoding)
        = BufferFrom(ctx.progress.signature, ctx.progress.provider.signatureEncoding)

\* C32: with replay protection in effect a signed message is accepted at most
\* once.  After a request was accepted, no request with the same provider and
\* timestamp whose token decodes to the same signature bytes, in whatever
\* letter case or with whatever characters the decoder ignores, is verified:
\* all such tokens are one nonce.
C32_AcceptedAtMostOnce ==
    [][\A i \in DOMAIN h :
        h[i].pc = "record" /\ Verified(h'[i])
            => ~\E triple \in accepted : SameSignedMessage(h[i], triple)]_vars

\* C33: a recorded nonce outlives the freshness window of its request.  While
\* the host is up, at every instant at which the timestamp of an accepted
\* request still passes the freshness check of a route of its provider, under
\* the tolerance in effect on that route, the nonce of the request is in the
\* default store, whatever sweeps have run.
C33_NonceOutlivesFreshness ==
    HasReplayGuard(opts) /\ replayGuard.storage = "memory" /\ ~closed =>
        \A triple \in accepted : \A routeOptions \in opts.routes :
            /\ routeOptions.provider = triple.provider
            /\ EffectiveEnabled(routeOptions)
            /\ WithinTolerance(now, triple.timestamp, EffectiveTolerance(routeOptions))
            => StorageHas(nonces, NonceOf(triple.provider, triple.signature, triple.timestamp))

\* The provider of the route declares a timestamp header and the request does
\* not have it.
TimestampHeaderAbsent(ctx) ==
    LET made == getProvider(ctx.routeOptions.provider, ctx.routeOptions.customConfig) IN
    /\ ~made.threw
    /\ made.value.timestampHeader # <<>>
    /\ made.value.timestampHeader \notin DOMAIN ctx.request.headers

\* C34: with replay protection in effect on the route, a request to a
\* provider that declares a timestamp header, Slack or a custom provider
\* configured with one, is never verified when the request has no such
\* header.
C34_NoTimestampHeaderNotVerified ==
    \A i \in DOMAIN h :
        EffectiveEnabled(h[i].routeOptions) /\ TimestampHeaderAbsent(h[i]) => ~Verified(h[i])

\* The timestamp value of the request, where the provider of the route reads
\* it, is there and is not the digits of a number of seconds.
TimestampUnparseable(ctx) ==
    LET made == getProvider(ctx.routeOptions.provider, ctx.routeOptions.customConfig)
        tsHeader == Header(ctx.request, made.value.timestampHeader)
    IN  /\ ~made.threw
        /\ made.value.timestampHeader # <<>>
        /\ IsNonEmptyString(tsHeader)
        /\ \E k \in DOMAIN tsHeader.value : tsHeader.value[k] \notin Digits

\* C35: with replay protection in effect on the route, a request whose
\* timestamp value does not parse as an integer number of seconds never passes
\* the freshness check, and is never verified.
C35_UnparseableTimestampNotVerified ==
    \A i \in DOMAIN h :
        EffectiveEnabled(h[i].routeOptions) /\ TimestampUnparseable(h[i]) /\ h[i].pc # "idle"
            => /\ h[i].progress.stage \in {Stages[1], Stages[2], Stages[3], Stages[4], Stages[5], Stages[6]}
               /\ ~Verified(h[i])

\* C36: a verification that ends in an error leaves the nonce store as it
\* was: its handler, whether it rejects or gives the error to the error
\* handler, and whether it fails before the replay step or after it, in the
\* extraction of the event type or in the onVerify hook, has recorded no nonce.
C36_ErrorRecordsNothing ==
    \A i \in DOMAIN h :
        h[i].pc = "done" /\ h[i].error # NoError => ~h[i].recorded

====
